---- MODULE Spec2Model ----
(***************************************************************************)
(* A model of the request pipeline of rest_client: the circuit breaker     *)
(* (circuit_breaker.py), the retry strategy (retry.py), the token-bucket   *)
(* rate limiter (rate_limit.py), the cache manager (cache.py) and          *)
(* Client.request (clients.py), which sequences them.                      *)
(*                                                                         *)
(* Time is the integer clock `now`; the Tick action advances it.           *)
(***************************************************************************)
EXTENDS Integers, Sequences, FiniteSets, TLC

(***************************************************************************)
(* Bounds of the model.                                                    *)
(***************************************************************************)
MaxThreshold == 2

MaxResetTimeout == 1

MaxTime == 2

MaxFailures == 3

\* The largest status code a response is given.
MaxStatus == 610

\* The direct calls of RateLimiter.acquire in one behaviour.
MaxAcquires == 4

VARIABLES
    cb_config,      \* CircuitBreaker.config (CircuitBreakerConfig), immutable
    state,          \* CircuitBreaker.state
    metrics,        \* CircuitBreaker.metrics (CircuitBreakerMetrics)
    opened_at,      \* CircuitBreaker.opened_at
    now,            \* time.time()
    op,             \* the breaker method called last
    arg,            \* the exception it was given (record_failure), else None
    allowed,        \* the value the last allow_request() returned
    streak,         \* counted failures reported in a row to a Closed breaker
    successes,      \* successes reported since the breaker became HalfOpen
    retry_config,   \* Client.config.retry (RetryConfig), immutable
    rl_config,      \* Client.config.rate_limit (RateLimitConfig), immutable
    cache_config,   \* Client.config.cache (CacheConfig), immutable
    global_limiter, \* RateLimiter.global_limiter (TokenBucket)
    _cache,         \* MemoryCache._cache, in insertion order
    caller,         \* per caller: where its request() call stands
    route,          \* the test's view of the endpoint: its calls, the requests made
    middleware,     \* Client.middleware, the names of the interceptors, immutable
    _lock,          \* the owner of each component's RLock
    thread,         \* per caller: its request() call, statement by statement
    history,        \* what the shared components have done so far
    raised,         \* an exception handed to _should_retry_exception
    _limiters,      \* RateLimiter._limiters, the buckets by key
    acquired,       \* the last RateLimiter.acquire(key) called directly: key, value
    retrying,       \* a call of the Retrying object: its attempts and its waits
    retryable       \* the values _should_retry_exception returned for it

configVars == <<cb_config, retry_config, rl_config, cache_config, middleware>>

breakerVars == <<state, metrics, opened_at>>

callVars == <<op, arg, allowed, streak, successes>>

clientVars == <<global_limiter, _cache, caller, route>>

threadVars == <<_lock, thread, history>>

retryVars == <<raised, retryable, retrying>>

limiterVars == <<_limiters, acquired>>

vars ==
    <<cb_config, retry_config, rl_config, cache_config, state, metrics, opened_at,
      now, op, arg, allowed, streak, successes, global_limiter, _cache, caller,
      route, middleware, _lock, thread, history, raised, retryable, _limiters,
      acquired, retrying>>

(***************************************************************************)
(* Values.                                                                 *)
(***************************************************************************)
None == -1

CLOSED == "closed"

OPEN == "open"

HALF_OPEN == "half_open"

CircuitState == {CLOSED, OPEN, HALF_OPEN}

CircuitBreakerMetrics ==
    [failure_count |-> 0, success_count |-> 0, last_failure_time |-> None,
     total_calls |-> 0, total_failures |-> 0]

\* What the transport, or raise_for_status, can raise (httpx exception classes).
ExceptionKinds ==
    {"HTTPStatusError", "ConnectTimeout", "ReadTimeout", "WriteTimeout",
     "PoolTimeout", "NetworkError", "DecodingError"}

\* The classes an exception of class k is an instance of: httpx's classes for
\* what the transport raises, exceptions.py's for what the client raises.
Bases(k) ==
    CASE k \in {"ConnectTimeout", "ReadTimeout", "WriteTimeout", "PoolTimeout"} ->
            {k, "TimeoutException", "Exception"}
      [] k \in {"ConnectError", "ReadError", "WriteError", "CloseError"} ->
            {k, "NetworkError", "Exception"}
      [] k \in {"AuthenticationError", "ForbiddenError", "NotFoundError", "RateLimitError"} ->
            {k, "ClientResponseError", "HTTPError", "ClientError", "Exception"}
      [] k \in {"ClientResponseError", "ServerError"} ->
            {k, "HTTPError", "ClientError", "Exception"}
      [] k \in {"ConnectTimeoutError", "ReadTimeoutError", "WriteTimeoutError"} ->
            {k, "TimeoutError", "ClientError", "Exception"}
      [] k \in {"HTTPError", "ConnectionError", "TimeoutError"} ->
            {k, "ClientError", "Exception"}
      [] k = "CircuitBreakerOpenError" ->
            {k, "CircuitBreakerError", "ClientError", "Exception"}
      [] k = "CircuitBreakerError" ->
            {k, "ClientError", "Exception"}
      [] OTHER -> {k, "Exception"}

isinstance(k, cls) == cls \in Bases(k)

\* record_failure's loop over config.excluded_exceptions.
IsExcluded(exception) ==
    \E excluded \in cb_config.excluded_exceptions : isinstance(exception, excluded)

(***************************************************************************)
(* CircuitBreaker.  A method body is a function from the object (`self`:   *)
(* state, metrics, opened_at) and the clock to the object it leaves.  Each *)
(* method runs under the breaker's lock, so each is one step.              *)
(***************************************************************************)
Self == [state |-> state, metrics |-> metrics, opened_at |-> opened_at]

\* A transition to Open that keeps the two counts.
_transition_to_open_keeping(self, t) ==
    [self EXCEPT !.state = OPEN, !.opened_at = t]

_transition_to_open(self, t) ==
    [self EXCEPT !.state = OPEN,
                 !.opened_at = t,
                 !.metrics.failure_count = 0,
                 !.metrics.success_count = 0]

_transition_to_half_open(self) ==
    [self EXCEPT !.state = HALF_OPEN,
                 !.metrics.success_count = 0,
                 !.metrics.failure_count = 0]

\* A transition to Closed that keeps the two counts.
_transition_to_closed_keeping(self) ==
    [self EXCEPT !.state = CLOSED, !.opened_at = None]

_transition_to_closed(self) ==
    [self EXCEPT !.state = CLOSED,
                 !.metrics.failure_count = 0,
                 !.metrics.success_count = 0,
                 !.opened_at = None]

\* The cooldown taken to be over already when exactly reset_timeout has passed.
ResetTimeoutReached(self, t) == t - self.opened_at >= cb_config.reset_timeout

\* allow_request's test of the cooldown, line 31.
ResetTimeoutElapsed(self, t) == t - self.opened_at > cb_config.reset_timeout

\* allow_request admitting whatever the state.
allow_request_always(self, t) == [ret |-> TRUE, self |-> self]

\* allow_request: the value returned and the object left.
allow_request(self, t) ==
    IF self.state = OPEN
    THEN IF ResetTimeoutElapsed(self, t)
         THEN [ret |-> TRUE, self |-> _transition_to_half_open(self)]
         ELSE [ret |-> FALSE, self |-> self]
    ELSE IF self.state = HALF_OPEN
         THEN [ret |-> TRUE, self |-> self]
         ELSE [ret |-> TRUE, self |-> self]

\* record_success closing only above the threshold.
record_success_above(self) ==
    IF self.state = HALF_OPEN
    THEN LET counted == [self EXCEPT !.metrics.success_count = @ + 1]
         IN IF counted.metrics.success_count > cb_config.success_threshold
            THEN _transition_to_closed(counted)
            ELSE counted
    ELSE IF self.state = CLOSED
         THEN [self EXCEPT !.metrics.failure_count = 0]
         ELSE self

\* record_success keeping the failure count of a Closed breaker.
record_success_keeping(self) ==
    IF self.state = HALF_OPEN
    THEN LET counted == [self EXCEPT !.metrics.success_count = @ + 1]
         IN IF counted.metrics.success_count >= cb_config.success_threshold
            THEN _transition_to_closed(counted)
            ELSE counted
    ELSE self

record_success(self) ==
    IF self.state = HALF_OPEN
    THEN LET counted == [self EXCEPT !.metrics.success_count = @ + 1]
         IN IF counted.metrics.success_count >= cb_config.success_threshold
            THEN _transition_to_closed(counted)
            ELSE counted
    ELSE IF self.state = CLOSED
         THEN [self EXCEPT !.metrics.failure_count = 0]
         ELSE self

\* record_failure opening only above the threshold.
record_failure_above(self, exception, t) ==
    IF IsExcluded(exception)
    THEN self
    ELSE LET seen == [self EXCEPT !.metrics.last_failure_time = t,
                                  !.metrics.total_failures = @ + 1]
         IN IF seen.state = CLOSED
            THEN LET counted == [seen EXCEPT !.metrics.failure_count = @ + 1]
                 IN IF counted.metrics.failure_count > cb_config.failure_threshold
                    THEN _transition_to_open(counted, t)
                    ELSE counted
            ELSE IF seen.state = HALF_OPEN
                 THEN _transition_to_open(seen, t)
                 ELSE seen

\* record_failure without the test of excluded_exceptions.
record_failure_unfiltered(self, exception, t) ==
    LET seen == [self EXCEPT !.metrics.last_failure_time = t,
                             !.metrics.total_failures = @ + 1]
    IN IF seen.state = CLOSED
       THEN LET counted == [seen EXCEPT !.metrics.failure_count = @ + 1]
            IN IF counted.metrics.failure_count >= cb_config.failure_threshold
               THEN _transition_to_open(counted, t)
               ELSE counted
       ELSE IF seen.state = HALF_OPEN
            THEN _transition_to_open(seen, t)
            ELSE seen

\* record_failure restarting the cooldown of an Open breaker.
record_failure_restarting(self, exception, t) ==
    IF IsExcluded(exception)
    THEN self
    ELSE LET seen == [self EXCEPT !.metrics.last_failure_time = t,
                                  !.metrics.total_failures = @ + 1]
         IN IF seen.state = CLOSED
            THEN LET counted == [seen EXCEPT !.metrics.failure_count = @ + 1]
                 IN IF counted.metrics.failure_count >= cb_config.failure_threshold
                    THEN _transition_to_open(counted, t)
                    ELSE counted
            ELSE _transition_to_open(seen, t)

record_failure(self, exception, t) ==
    IF IsExcluded(exception)
    THEN self
    ELSE LET seen == [self EXCEPT !.metrics.last_failure_time = t,
                                  !.metrics.total_failures = @ + 1]
         IN IF seen.state = CLOSED
            THEN LET counted == [seen EXCEPT !.metrics.failure_count = @ + 1]
                 IN IF counted.metrics.failure_count >= cb_config.failure_threshold
                    THEN _transition_to_open(counted, t)
                    ELSE counted
            ELSE IF seen.state = HALF_OPEN
                 THEN _transition_to_open(seen, t)
                 ELSE seen

force_open(self, t) == _transition_to_open(self, t)

force_close(self) == _transition_to_closed(self)

\* A reset that closes the breaker and keeps its metrics.
reset_keeping(self) == _transition_to_closed(self)

reset(self) == [_transition_to_closed(self) EXCEPT !.metrics = CircuitBreakerMetrics]


(***************************************************************************)
(* Exceptions and results.  An exception is its class and, for the         *)
(* client's HTTPError family, the status code of the response it carries.  *)
(***************************************************************************)
Exc(cls, status_code) == [cls |-> cls, status_code |-> status_code]

\* A response returned to the caller.
Response(status_code) == [cls |-> "Response", status_code |-> status_code]

\* No outcome yet.
Pending == [cls |-> "Pending", status_code |-> None]

IsException(r) == r.cls \notin {"Response", "Pending"}

(***************************************************************************)
(* retry.py: the classification of an attempt's exception, and the         *)
(* Retrying object built from stop_after_attempt(max_attempts),            *)
(* retry_if_exception(_should_retry_exception) and reraise=True.           *)
(***************************************************************************)
\* A classification that retries every error of the client.
_should_retry_client_error(exception, retry_statuses) ==
    isinstance(exception.cls, "ClientError")

\* A classification that retries every error that carries a response.
_should_retry_any_status(exception, retry_statuses) ==
    IF isinstance(exception.cls, "ConnectionError") \/ isinstance(exception.cls, "TimeoutError")
    THEN TRUE
    ELSE isinstance(exception.cls, "HTTPError") /\ exception.status_code # None

_should_retry_exception(exception, retry_statuses) ==
    IF isinstance(exception.cls, "ConnectionError") \/ isinstance(exception.cls, "TimeoutError")
    THEN TRUE
    ELSE IF isinstance(exception.cls, "HTTPError")
         THEN /\ exception.status_code # None
              /\ exception.status_code # 0
              /\ exception.status_code \in retry_statuses
         ELSE FALSE

\* A strategy that stops one attempt late.
create_retry_strategy_late(attempt_number, exception) ==
    IF ~_should_retry_exception(exception, retry_config.retry_statuses)
    THEN "raise"
    ELSE IF attempt_number > retry_config.max_attempts
         THEN "raise"
         ELSE "sleep"

\* Retrying(reraise=False): the last exception is wrapped.
reraise_off == FALSE

\* Retrying(reraise=True), line 25.
reraise == TRUE

\* What the Retrying call raises when it gives up on an attempt's exception:
\* an exception that is not retryable goes to the caller as it is; after
\* the last attempt the exception of that attempt is re-raised as it is
\* (reraise), tenacity's RetryError otherwise.
Retrying_raise(exception) ==
    IF _should_retry_exception(exception, retry_config.retry_statuses) /\ ~reraise
    THEN Exc("RetryError", None)
    ELSE exception

\* What the Retrying object does with an attempt that raised: "raise" the
\* attempt's own exception, or "sleep" and attempt again.
create_retry_strategy(attempt_number, exception) ==
    IF ~_should_retry_exception(exception, retry_config.retry_statuses)
    THEN "raise"
    ELSE IF attempt_number >= retry_config.max_attempts
         THEN "raise"
         ELSE "sleep"

RECURSIVE Pow2(_)
Pow2(n) == IF n = 0 THEN 1 ELSE 2 * Pow2(n - 1)

Max(a, b) == IF a >= b THEN a ELSE b

\* A wait computed from the number of the attempt to come.
wait_exponential_next(attempt_number) ==
    Max(0, IF retry_config.backoff_factor * Pow2(attempt_number) <= retry_config.backoff_max
           THEN retry_config.backoff_factor * Pow2(attempt_number)
           ELSE retry_config.backoff_max)

\* tenacity's wait_exponential(multiplier=backoff_factor, max=backoff_max),
\* line 23, called with the number of the attempt that has just failed:
\* max(0, min(multiplier * 2 ** (attempt_number - 1), max)).
wait_exponential(attempt_number) ==
    Max(0, IF retry_config.backoff_factor * Pow2(attempt_number - 1) <= retry_config.backoff_max
           THEN retry_config.backoff_factor * Pow2(attempt_number - 1)
           ELSE retry_config.backoff_max)

\* The Retrying object before it is called.
NotRetrying == [pc |-> "idle", attempt_number |-> 0, waits |-> <<>>, result |-> Pending]

\* self._retry_strategy(_request_attempt), clients.py line 139: the call
\* starts with attempt 1, without a wait.
RetryingCall ==
    /\ retrying.pc = "idle"
    /\ retrying' = [NotRetrying EXCEPT !.pc = "attempt", !.attempt_number = 1]
    /\ UNCHANGED <<configVars, limiterVars, threadVars, breakerVars, callVars, clientVars,
                   now, raised, retryable>>

\* The attempt returns a response: the call returns it.
AttemptReturns ==
    /\ retrying.pc = "attempt"
    /\ retrying' = [retrying EXCEPT !.pc = "idle", !.result = Response(200)]
    /\ UNCHANGED <<configVars, limiterVars, threadVars, breakerVars, callVars, clientVars,
                   now, raised, retryable>>

\* The attempt raises e: the call raises, or computes the wait and sleeps.
AttemptRaises(e) ==
    /\ retrying.pc = "attempt"
    /\ retrying' =
          IF create_retry_strategy(retrying.attempt_number, e) = "raise"
          THEN [retrying EXCEPT !.pc = "idle", !.result = Retrying_raise(e)]
          ELSE [retrying EXCEPT
                   !.pc = "sleep",
                   !.waits = Append(@, wait_exponential(retrying.attempt_number))]
    /\ UNCHANGED <<configVars, limiterVars, threadVars, breakerVars, callVars, clientVars,
                   now, raised, retryable>>

\* The sleep is over: the next attempt starts.
SleepDone ==
    /\ retrying.pc = "sleep"
    /\ retrying' = [retrying EXCEPT !.pc = "attempt", !.attempt_number = @ + 1]
    /\ UNCHANGED <<configVars, limiterVars, threadVars, breakerVars, callVars, clientVars,
                   now, raised, retryable>>

(***************************************************************************)
(* rate_limit.py.  _tokens is held in units of 1/time_window of a token,   *)
(* so that the refill elapsed * max_requests / time_window is an integer.  *)
(***************************************************************************)
Min(a, b) == IF a <= b THEN a ELSE b

TokenBucket(max_requests, time_window, t) ==
    [_tokens |-> max_requests * time_window, _last_refill |-> t]

\* TokenBucket.acquire: the value returned and the bucket left.
TokenBucket_acquire(bucket, t) ==
    LET elapsed == t - bucket._last_refill
        filled == Min(rl_config.max_requests * rl_config.time_window,
                      bucket._tokens + elapsed * rl_config.max_requests)
    IN IF filled >= rl_config.time_window
       THEN [ret |-> TRUE,
             self |-> [_tokens |-> filled - rl_config.time_window, _last_refill |-> t]]
       ELSE [ret |-> FALSE, self |-> [_tokens |-> filled, _last_refill |-> t]]

\* No call of RateLimiter.acquire made directly yet.
NotAcquired == [key |-> "None", ret |-> TRUE, calls |-> 0]

\* A limiter that lets every request pass.
RateLimiter_acquire_open(bucket, t) == [ret |-> TRUE, self |-> bucket]

\* RateLimiter.acquire: the global bucket alone decides.
RateLimiter_acquire(bucket, t) == TokenBucket_acquire(bucket, t)

(***************************************************************************)
(* cache.py.  The dict is a sequence of entries in insertion order.        *)
(***************************************************************************)
max_size == 1000

Keys(cache) == {cache[i].key : i \in 1..Len(cache)}

IndexOf(cache, key) == CHOOSE i \in 1..Len(cache) : cache[i].key = key

Without(cache, i) == [j \in 1..(Len(cache) - 1) |-> IF j < i THEN cache[j] ELSE cache[j + 1]]

\* MemoryCache.get: the value returned (None for a miss) and the dict left.
MemoryCache_get(cache, key, t) ==
    IF key \in Keys(cache)
    THEN LET i == IndexOf(cache, key)
         IN IF t < cache[i].expiry
            THEN [ret |-> cache[i].value, cache |-> cache]
            ELSE [ret |-> None, cache |-> Without(cache, i)]
    ELSE [ret |-> None, cache |-> cache]

MemoryCache_set(cache, key, value, ttl, t) ==
    LET kept == IF Len(cache) >= max_size THEN Tail(cache) ELSE cache
        entry == [key |-> key, value |-> value, expiry |-> t + ttl]
    IN IF key \in Keys(kept)
       THEN [kept EXCEPT ![IndexOf(kept, key)] = entry]
       ELSE Append(kept, entry)

CacheManager_get(cache, key, t) ==
    IF ~cache_config.enabled
    THEN [ret |-> None, cache |-> cache]
    ELSE MemoryCache_get(cache, key, t)

CacheManager_set(cache, key, value, t) ==
    IF ~cache_config.enabled
    THEN cache
    ELSE MemoryCache_set(cache, key, value, cache_config.default_ttl, t)

\* One URL and one set of query parameters are modelled.
generate_key(method) == method

(***************************************************************************)
(* clients.py: Client.request and its nested functions.                    *)
(***************************************************************************)
Methods == {"GET", "POST"}

Statuses == {200, 404, 429, 500}

TransportExceptions ==
    {"ConnectTimeout", "ReadTimeout", "WriteTimeout", "PoolTimeout",
     "NetworkError", "DecodingError"}

\* What one call of the transport yields: a response, or an exception.
Outcomes ==
    {Response(s) : s \in Statuses} \cup {Exc(k, None) : k \in TransportExceptions}

\* The outcomes the specifications below draw from: every status, and one
\* exception of each handler of _request_attempt.
SomeOutcomes ==
    {Response(s) : s \in Statuses}
        \cup {Exc(k, None) : k \in {"ReadTimeout", "NetworkError", "DecodingError"}}

\* httpx's Response.raise_for_status returns for a 2xx status and raises
\* HTTPStatusError otherwise.
is_success(status_code) == 200 <= status_code /\ status_code < 300

\* A mapping that tests the 4xx and 5xx ranges before the single statuses.
_handle_http_error_ranges(status_code) ==
    IF 400 <= status_code /\ status_code < 500 THEN Exc("ClientResponseError", status_code)
    ELSE IF 500 <= status_code /\ status_code < 600 THEN Exc("ServerError", status_code)
    ELSE IF status_code = 401 THEN Exc("AuthenticationError", status_code)
    ELSE IF status_code = 403 THEN Exc("ForbiddenError", status_code)
    ELSE IF status_code = 404 THEN Exc("NotFoundError", status_code)
    ELSE IF status_code = 429 THEN Exc("RateLimitError", status_code)
    ELSE Exc("HTTPError", status_code)

_handle_http_error(status_code) ==
    IF status_code = 401 THEN Exc("AuthenticationError", status_code)
    ELSE IF status_code = 403 THEN Exc("ForbiddenError", status_code)
    ELSE IF status_code = 404 THEN Exc("NotFoundError", status_code)
    ELSE IF status_code = 429 THEN Exc("RateLimitError", status_code)
    ELSE IF 400 <= status_code /\ status_code < 500 THEN Exc("ClientResponseError", status_code)
    ELSE IF 500 <= status_code /\ status_code < 600 THEN Exc("ServerError", status_code)
    ELSE Exc("HTTPError", status_code)

\* _request_attempt reporting every failed response as a failure.
_request_attempt_counting(outcome) ==
    IF outcome.cls = "Response"
    THEN IF is_success(outcome.status_code)
         THEN [report |-> "record_success", exception |-> "None", result |-> outcome]
         ELSE [report |-> "record_failure", exception |-> "HTTPStatusError",
               result |-> _handle_http_error(outcome.status_code)]
    ELSE [report |-> "record_failure", exception |-> outcome.cls,
          result |-> IF isinstance(outcome.cls, "TimeoutException")
                     THEN Exc("TimeoutError", None)
                     ELSE IF isinstance(outcome.cls, "NetworkError")
                          THEN Exc("ConnectionError", None)
                          ELSE outcome]

\* _request_attempt after the transport call: what it reports to the breaker
\* ("record_success", or "record_failure" with the exception named), and
\* what it returns or raises.
\* An attempt that raises the generic TimeoutError for every timeout.
_request_attempt_generic(outcome) ==
    IF outcome.cls = "Response"
    THEN IF is_success(outcome.status_code)
         THEN [report |-> "record_success", exception |-> "None", result |-> outcome]
         ELSE [report |-> IF outcome.status_code \in cb_config.included_status_codes
                          THEN "record_failure" ELSE "record_success",
               exception |-> "HTTPStatusError",
               result |-> _handle_http_error(outcome.status_code)]
    ELSE IF isinstance(outcome.cls, "TimeoutException")
         THEN [report |-> "record_failure", exception |-> outcome.cls,
               result |-> Exc("TimeoutError", None)]
         ELSE IF isinstance(outcome.cls, "NetworkError")
              THEN [report |-> "record_failure", exception |-> outcome.cls,
                    result |-> Exc("ConnectionError", None)]
              ELSE [report |-> "record_failure", exception |-> outcome.cls,
                    result |-> outcome]

_request_attempt(outcome) ==
    IF outcome.cls = "Response"
    THEN IF is_success(outcome.status_code)
         THEN [report |-> "record_success", exception |-> "None", result |-> outcome]
         ELSE [report |-> IF outcome.status_code \in cb_config.included_status_codes
                          THEN "record_failure" ELSE "record_success",
               exception |-> "HTTPStatusError",
               result |-> _handle_http_error(outcome.status_code)]
    ELSE IF isinstance(outcome.cls, "TimeoutException")
         THEN [report |-> "record_failure", exception |-> outcome.cls,
               result |-> IF isinstance(outcome.cls, "ConnectTimeout")
                          THEN Exc("ConnectTimeoutError", None)
                          ELSE IF isinstance(outcome.cls, "ReadTimeout")
                               THEN Exc("ReadTimeoutError", None)
                               ELSE IF isinstance(outcome.cls, "WriteTimeout")
                                    THEN Exc("WriteTimeoutError", None)
                                    ELSE Exc("TimeoutError", None)]
         ELSE IF isinstance(outcome.cls, "NetworkError")
              THEN [report |-> "record_failure", exception |-> outcome.cls,
                    result |-> Exc("ConnectionError", None)]
              ELSE [report |-> "record_failure", exception |-> outcome.cls,
                    result |-> outcome]

\* _request_attempt calls cache.set, line 108: the method is GET or HEAD and
\* the status is in cacheable_status_codes, and only a response that passed
\* raise_for_status reaches the test.
ShouldCache(method, outcome) ==
    /\ outcome.cls = "Response"
    /\ is_success(outcome.status_code)
    /\ method \in {"GET", "HEAD"}
    /\ outcome.status_code \in cache_config.cacheable_status_codes

CacheAfterAttempt(cache, method, outcome, t) ==
    IF ShouldCache(method, outcome)
    THEN CacheManager_set(cache, generate_key(method), outcome.status_code, t)
    ELSE cache

(***************************************************************************)
(* Calls on the breaker: the object left, and the record of the call.     *)
(***************************************************************************)
Assign(self) ==
    /\ state' = self.state
    /\ metrics' = self.metrics
    /\ opened_at' = self.opened_at

\* The record of a call the application makes on the breaker itself.
Called(name, exception, ret, run) ==
    /\ op' = name
    /\ arg' = exception
    /\ allowed' = ret
    /\ streak' = run
    /\ successes' = IF state = HALF_OPEN /\ state' = HALF_OPEN
                    THEN successes + (IF name = "record_success" THEN 1 ELSE 0)
                    ELSE 0

(***************************************************************************)
(* The callers of Client.request.  A caller is idle (its last result       *)
(* kept), about to ask the breaker for admission ("admit"), inside the     *)
(* transport call ("transport"), or asleep between attempts ("backoff").   *)
(***************************************************************************)
Callers == {"c1", "c2"}

Idle(result, calls) ==
    [pc |-> "idle", method |-> "None", attempt_number |-> 0, calls |-> calls,
     admitted_in |-> "None", result |-> result]

\* The endpoint as test_circuit_breaker sees it: while `active`, every
\* request so far was a GET made with no other request in progress and
\* passed the rate limiter, every response was a 500, the breaker was not
\* overridden and no cooldown has run out.
RouteOff == [active |-> FALSE, call_count |-> 0, requests |-> 0]

RouteStart == [active |-> TRUE, call_count |-> 0, requests |-> 0]

RouteRequestsBound == MaxThreshold + 2

RouteAfterStart(c, method, admitted, hit) ==
    IF /\ route.active
       /\ method = "GET"
       /\ admitted
       /\ ~hit
       /\ \A d \in Callers \ {c} : caller[d].pc = "idle"
       /\ route.requests < RouteRequestsBound
    THEN [route EXCEPT !.requests = @ + 1]
    ELSE RouteOff

RouteAfterAdmit(r) ==
    IF route.active /\ r.self.state = state
    THEN IF r.ret THEN [route EXCEPT !.call_count = @ + 1] ELSE route
    ELSE RouteOff

RouteAfterAttempt(outcome) ==
    IF route.active /\ outcome = Response(500) THEN route ELSE RouteOff

(***************************************************************************)
(* Client.request, steps 1 and 2 and the entry into the retry loop: the    *)
(* rate limiter, the cache lookup, then the first attempt.                 *)
(***************************************************************************)
StartRequest(c, method) ==
    /\ caller[c].pc = "idle"
    /\ LET a == RateLimiter_acquire(global_limiter, now)
           g == IF method \in {"GET", "HEAD"}
                THEN CacheManager_get(_cache, generate_key(method), now)
                ELSE [ret |-> None, cache |-> _cache]
       IN /\ global_limiter' = a.self
          /\ IF ~a.ret
             THEN /\ caller' = [caller EXCEPT ![c] = Idle(Exc("RateLimitError", None), 0)]
                  /\ _cache' = _cache
             ELSE /\ _cache' = g.cache
                  /\ caller' = [caller EXCEPT ![c] =
                        IF g.ret # None
                        THEN Idle(Response(g.ret), 0)
                        ELSE [pc |-> "admit", method |-> method, attempt_number |-> 1,
                              calls |-> 0, admitted_in |-> "None", result |-> Pending]]
          /\ route' = RouteAfterStart(c, method, a.ret, a.ret /\ g.ret # None)
    /\ UNCHANGED <<configVars, limiterVars, threadVars, retryVars, breakerVars, callVars, now>>

\* _request_attempt up to the transport call: the admission check.  A
\* refusal raises CircuitBreakerOpenError, which goes through the retry
\* strategy like any exception of an attempt.
Admit(c) ==
    /\ caller[c].pc = "admit"
    /\ LET r == allow_request(Self, now)
           refused == Exc("CircuitBreakerOpenError", None)
       IN /\ Assign(r.self)
          /\ caller' = [caller EXCEPT ![c] =
                IF r.ret
                THEN [@ EXCEPT !.pc = "transport", !.calls = @ + 1,
                               !.admitted_in = r.self.state]
                ELSE IF create_retry_strategy(caller[c].attempt_number, refused) = "raise"
                     THEN Idle(Retrying_raise(refused), caller[c].calls)
                     ELSE [@ EXCEPT !.pc = "backoff", !.result = refused]]
          /\ route' = RouteAfterAdmit(r)
    /\ UNCHANGED <<configVars, limiterVars, threadVars, retryVars, callVars, now, global_limiter, _cache>>

\* The transport call returns or raises: the rest of _request_attempt, then
\* the retry strategy's decision.
TransportReturn(c, outcome) ==
    /\ caller[c].pc = "transport"
    /\ LET a == _request_attempt(outcome)
       IN /\ a.report = "record_failure" => metrics.total_failures < MaxFailures
          /\ Assign(IF a.report = "record_success"
                    THEN record_success(Self)
                    ELSE record_failure(Self, a.exception, now))
          /\ _cache' = CacheAfterAttempt(_cache, caller[c].method, outcome, now)
          /\ caller' = [caller EXCEPT ![c] =
                IF ~IsException(a.result)
                THEN Idle(a.result, caller[c].calls)
                ELSE IF create_retry_strategy(caller[c].attempt_number, a.result) = "raise"
                     THEN Idle(Retrying_raise(a.result), caller[c].calls)
                     ELSE [@ EXCEPT !.pc = "backoff", !.admitted_in = "None",
                                    !.result = a.result]]
          /\ route' = RouteAfterAttempt(outcome)
    /\ UNCHANGED <<configVars, limiterVars, threadVars, retryVars, callVars, now, global_limiter>>

\* The backoff sleep ends and the next attempt starts.
BackoffDone(c) ==
    /\ caller[c].pc = "backoff"
    /\ caller' = [caller EXCEPT ![c] =
            [@ EXCEPT !.pc = "admit", !.attempt_number = @ + 1]]
    /\ UNCHANGED <<configVars, limiterVars, threadVars, retryVars, breakerVars, callVars, now, global_limiter, _cache, route>>

(***************************************************************************)
(* The breaker's methods called directly, and the clock.                   *)
(***************************************************************************)
AllowRequest ==
    /\ LET r == allow_request(Self, now)
       IN /\ Assign(r.self)
          /\ Called("allow_request", "None", r.ret,
                    IF r.self.state = state THEN streak ELSE 0)
    /\ UNCHANGED <<configVars, limiterVars, threadVars, retryVars, now, clientVars>>

RecordSuccess ==
    /\ Assign(record_success(Self))
    /\ Called("record_success", "None", allowed, 0)
    /\ UNCHANGED <<configVars, limiterVars, threadVars, retryVars, now, clientVars>>

RecordFailure(exception) ==
    /\ metrics.total_failures < MaxFailures
    /\ Assign(record_failure(Self, exception, now))
    /\ Called("record_failure", exception, allowed,
              IF IsExcluded(exception) THEN streak
              ELSE IF state = CLOSED THEN streak + 1 ELSE 0)
    /\ UNCHANGED <<configVars, limiterVars, threadVars, retryVars, now, clientVars>>

ForceOpen ==
    /\ Assign(force_open(Self, now))
    /\ Called("force_open", "None", allowed, 0)
    /\ route' = RouteOff
    /\ UNCHANGED <<configVars, limiterVars, threadVars, retryVars, now, global_limiter, _cache, caller>>

ForceClose ==
    /\ Assign(force_close(Self))
    /\ Called("force_close", "None", allowed, 0)
    /\ route' = RouteOff
    /\ UNCHANGED <<configVars, limiterVars, threadVars, retryVars, now, global_limiter, _cache, caller>>

Reset ==
    /\ Assign(reset(Self))
    /\ Called("reset", "None", allowed, 0)
    /\ route' = RouteOff
    /\ UNCHANGED <<configVars, limiterVars, threadVars, retryVars, now, global_limiter, _cache, caller>>

\* The overrides called on client.circuit_breaker between the steps of a
\* request; the record of the last direct call is left as it is.
OperatorForceOpen ==
    /\ Assign(force_open(Self, now))
    /\ route' = RouteOff
    /\ UNCHANGED <<configVars, limiterVars, threadVars, retryVars, callVars, now,
                   global_limiter, _cache, caller>>

OperatorForceClose ==
    /\ Assign(force_close(Self))
    /\ route' = RouteOff
    /\ UNCHANGED <<configVars, limiterVars, threadVars, retryVars, callVars, now,
                   global_limiter, _cache, caller>>

OperatorReset ==
    /\ Assign(reset(Self))
    /\ route' = RouteOff
    /\ UNCHANGED <<configVars, limiterVars, threadVars, retryVars, callVars, now,
                   global_limiter, _cache, caller>>

\* RateLimiter.acquire(key) called directly: lines 45 to 51 read the global
\* bucket and nothing else; `key` is not used and _limiters is not written.
RateLimiterAcquire(key) ==
    /\ acquired.calls < MaxAcquires
    /\ LET r == RateLimiter_acquire(global_limiter, now)
       IN /\ global_limiter' = r.self
          /\ acquired' = [key |-> key, ret |-> r.ret, calls |-> acquired.calls + 1]
    /\ _limiters' = _limiters
    /\ UNCHANGED <<configVars, threadVars, retryVars, breakerVars, callVars, now,
                   _cache, caller, route>>

Tick ==
    /\ now < MaxTime
    /\ now' = now + 1
    /\ UNCHANGED <<configVars, limiterVars, threadVars, retryVars, breakerVars, callVars, clientVars>>

(***************************************************************************)
(* Client.request statement by statement, for callers running in parallel. *)
(* A method of a shared component is two steps: the caller takes the       *)
(* component's RLock and reads the object and the clock, then writes the   *)
(* object the method leaves and releases the lock.                         *)
(***************************************************************************)
Locks == {"circuit_breaker", "global_limiter", "rate_limiter"}

\* A lock that never makes a caller wait.
RLock_free_always(lock, c) == TRUE

\* `with self._lock:` can be entered by c.
RLock_free(lock, c) == _lock[lock] \in {"None", c}

\* A lock still owned by c after the `with` block.
RLock_kept(lock, c) == [_lock EXCEPT ![lock] = c]

\* The locks once c has left the `with` block.
RLock_release(lock, c) == [_lock EXCEPT ![lock] = "None"]

\* One step of a request, as the trace of the request records it.
Ev(name, by) == [ev |-> name, by |-> by]

NoLocal ==
    [self |-> [state |-> CLOSED, metrics |-> CircuitBreakerMetrics, opened_at |-> None],
     bucket |-> [_tokens |-> 0, _last_refill |-> 0],
     t |-> 0, outcome |-> Pending]

\* A caller that has not called request().
Ready ==
    [pc |-> "idle", method |-> "None", request |-> <<>>, sent |-> <<>>,
     response |-> <<>>, index |-> 0, attempt_number |-> 0, local |-> NoLocal,
     trace |-> <<>>, result |-> Pending]

\* What has happened so far: of the acquisitions made with no time elapsed
\* since the bucket was built, how many it granted and whether it rejected
\* one; and the failures the transport answered with.
NoHistory == [granted |-> 0, rejected |-> FALSE, failures |-> 0]

\* request() returns or raises `result`.
Finish(t, result) == [t EXCEPT !.pc = "idle", !.result = result, !.local = NoLocal]

\* The trace is kept of the requests of one caller.
Observed == "c1"

Traced(c, t, name, by) ==
    IF c = Observed THEN [t EXCEPT !.trace = Append(@, Ev(name, by))] ELSE t

\* call_next taking the interceptors from the last to the first.
call_next_reversed(index) ==
    IF index < Len(middleware) THEN middleware[Len(middleware) - index] ELSE "_core_request"

\* call_next(req, index): the interceptor it calls, or _core_request.
call_next(index) ==
    IF index < Len(middleware) THEN middleware[index + 1] ELSE "_core_request"

\* client.request(method, url) is called.
Request(c, method) ==
    /\ thread[c].pc = "idle"
    /\ thread' = [thread EXCEPT ![c] = [Ready EXCEPT !.pc = "acquire", !.method = method]]
    /\ UNCHANGED <<configVars, limiterVars, retryVars, breakerVars, callVars, clientVars, now,
                   _lock, history>>

\* TokenBucket.acquire, lines 19 to 22, as far as the reads: the lock is
\* taken, the clock and the bucket are read.
TokenBucket_lock(c) ==
    /\ thread[c].pc = "acquire"
    /\ RLock_free("global_limiter", c)
    /\ _lock' = [_lock EXCEPT !["global_limiter"] = c]
    /\ thread' = [thread EXCEPT ![c] =
            [Traced(c, @, "acquire", "None") EXCEPT
                !.pc = "take", !.local.bucket = global_limiter, !.local.t = now]]
    /\ UNCHANGED <<configVars, limiterVars, retryVars, breakerVars, callVars, clientVars, now, history>>

\* TokenBucket.acquire, lines 22 to 28, and Client.request, lines 82 to 85:
\* the bucket is written, the lock released, and a refusal raised.
TokenBucket_write(c) ==
    /\ thread[c].pc = "take"
    /\ LET a == RateLimiter_acquire(thread[c].local.bucket, thread[c].local.t)
       IN /\ global_limiter' = a.self
          /\ _lock' = RLock_release("global_limiter", c)
          /\ history' = IF thread[c].local.t # 0
                        THEN history
                        ELSE IF a.ret
                             THEN [history EXCEPT !.granted = @ + 1]
                             ELSE [history EXCEPT !.rejected = TRUE]
          /\ thread' = [thread EXCEPT ![c] =
                IF a.ret
                THEN [@ EXCEPT !.pc = "cache", !.local = NoLocal]
                ELSE Finish(@, Exc("RateLimitError", None))]
    /\ UNCHANGED <<configVars, limiterVars, retryVars, breakerVars, callVars, now, _cache, caller, route>>

\* A lookup whose hit does not end the request.
CacheLookup_through(c) ==
    /\ thread[c].pc = "cache"
    /\ IF thread[c].method \in {"GET", "HEAD"}
       THEN LET g == CacheManager_get(_cache, generate_key(thread[c].method), now)
                t == Traced(c, thread[c], "cache_get", "None")
            IN /\ _cache' = g.cache
               /\ thread' = [thread EXCEPT ![c] = [t EXCEPT !.pc = "call_next"]]
       ELSE /\ _cache' = _cache
            /\ thread' = [thread EXCEPT ![c] = [@ EXCEPT !.pc = "call_next"]]
    /\ UNCHANGED <<configVars, limiterVars, retryVars, breakerVars, callVars, now, global_limiter,
                   caller, route, _lock, history>>

\* Client.request, lines 88 to 92 and 142: the cache lookup of a GET or HEAD.
CacheLookup(c) ==
    /\ thread[c].pc = "cache"
    /\ IF thread[c].method \in {"GET", "HEAD"}
       THEN LET g == CacheManager_get(_cache, generate_key(thread[c].method), now)
                t == Traced(c, thread[c], "cache_get", "None")
            IN /\ _cache' = g.cache
               /\ thread' = [thread EXCEPT ![c] =
                     IF g.ret # None
                     THEN Finish(t, Response(g.ret))
                     ELSE [t EXCEPT !.pc = "call_next"]]
       ELSE /\ _cache' = _cache
            /\ thread' = [thread EXCEPT ![c] = [@ EXCEPT !.pc = "call_next"]]
    /\ UNCHANGED <<configVars, limiterVars, retryVars, breakerVars, callVars, now, global_limiter,
                   caller, route, _lock, history>>

\* call_next, lines 145 to 150: the next interceptor is entered and changes
\* the request, or the retry loop starts with its first attempt.
CallNext(c) ==
    /\ thread[c].pc = "call_next"
    /\ LET callee == call_next(thread[c].index)
       IN thread' = [thread EXCEPT ![c] =
            IF callee = "_core_request"
            THEN [@ EXCEPT !.pc = "attempt", !.attempt_number = 1]
            ELSE [Traced(c, @, "enter", callee) EXCEPT
                    !.request = Append(@, callee), !.index = @ + 1]]
    /\ UNCHANGED <<configVars, limiterVars, retryVars, breakerVars, callVars, clientVars, now,
                   _lock, history>>

\* A retry that starts over from the rate limiter.
AfterRaise_reacquire(c, t, e) ==
    IF create_retry_strategy(t.attempt_number, e) = "raise"
    THEN Finish(t, Retrying_raise(e))
    ELSE [Traced(c, t, "sleep", "None") EXCEPT !.pc = "acquire", !.local = NoLocal]

\* What the retry strategy makes of an attempt that raised `e`.
\* A retry loop around the chain of interceptors: the next attempt starts
\* from the request as it was built.
AfterRaise_outside(c, t, e) ==
    IF create_retry_strategy(t.attempt_number, e) = "raise"
    THEN Finish(t, Retrying_raise(e))
    ELSE [Traced(c, t, "sleep", "None") EXCEPT
            !.pc = "call_next", !.index = 0, !.request = <<>>, !.local = NoLocal]

AfterRaise(c, t, e) ==
    IF create_retry_strategy(t.attempt_number, e) = "raise"
    THEN Finish(t, Retrying_raise(e))
    ELSE [Traced(c, t, "sleep", "None") EXCEPT !.pc = "backoff", !.local = NoLocal]

\* allow_request, lines 29 to 31, as far as the reads: the lock is taken,
\* the breaker and the clock are read.
Breaker_lock(c) ==
    /\ thread[c].pc = "attempt"
    /\ RLock_free("circuit_breaker", c)
    /\ _lock' = [_lock EXCEPT !["circuit_breaker"] = c]
    /\ thread' = [thread EXCEPT ![c] =
            [Traced(c, @, "allow_request", "None") EXCEPT
                !.pc = "allow_write", !.local.self = Self, !.local.t = now]]
    /\ UNCHANGED <<configVars, limiterVars, retryVars, breakerVars, callVars, clientVars, now, history>>

\* allow_request, lines 32 to 41, and _request_attempt, lines 97 and 98:
\* the breaker is written, the lock released, and a refusal raised.
Breaker_allow(c) ==
    /\ thread[c].pc = "allow_write"
    /\ LET r == allow_request(thread[c].local.self, thread[c].local.t)
       IN /\ Assign(r.self)
          /\ _lock' = RLock_release("circuit_breaker", c)
          /\ thread' = [thread EXCEPT ![c] =
                IF r.ret
                THEN [@ EXCEPT !.pc = "transport", !.local = NoLocal]
                ELSE AfterRaise(c, @, Exc("CircuitBreakerOpenError", None))]
    /\ UNCHANGED <<configVars, limiterVars, retryVars, callVars, clientVars, now, history>>

\* _request_attempt, lines 102 and 103: the transport is called with the
\* request as the interceptors left it, and returns or raises.
Send(c, outcome) ==
    /\ thread[c].pc = "transport"
    /\ _request_attempt(outcome).report = "record_failure" => history.failures < MaxFailures
    /\ history' = IF _request_attempt(outcome).report = "record_failure"
                  THEN [history EXCEPT !.failures = @ + 1]
                  ELSE history
    /\ thread' = [thread EXCEPT ![c] =
            [Traced(c, @, "send", "None") EXCEPT
                !.pc = "report", !.sent = thread[c].request, !.local.outcome = outcome]]
    /\ UNCHANGED <<configVars, limiterVars, retryVars, breakerVars, callVars, clientVars, now, _lock>>

\* A report that leaves out the exceptions of the generic handler.
Report_lock_silent(c) ==
    /\ thread[c].pc = "report"
    /\ LET a == _request_attempt(thread[c].local.outcome)
       IN IF a.report = "record_failure" /\ IsExcluded(a.exception)
          THEN /\ _lock' = _lock
               /\ thread' = [thread EXCEPT ![c] =
                     [Traced(c, @, a.report, "None") EXCEPT !.pc = "reported"]]
          ELSE IF a.exception \notin {"None", "HTTPStatusError"}
                  /\ ~isinstance(a.exception, "TimeoutException")
                  /\ ~isinstance(a.exception, "NetworkError")
               THEN /\ _lock' = _lock
                    /\ thread' = [thread EXCEPT ![c] = [@ EXCEPT !.pc = "reported"]]
               ELSE /\ RLock_free("circuit_breaker", c)
                    /\ _lock' = [_lock EXCEPT !["circuit_breaker"] = c]
                    /\ thread' = [thread EXCEPT ![c] =
                          [Traced(c, @, a.report, "None") EXCEPT
                              !.pc = "record_write", !.local.self = Self, !.local.t = now]]
    /\ UNCHANGED <<configVars, limiterVars, retryVars, breakerVars, callVars, clientVars, now, history>>

\* record_success, line 44, and record_failure, lines 54 to 58, as far as
\* the reads: an excluded exception makes record_failure return before it
\* takes the lock; otherwise the lock is taken, the breaker and the clock
\* are read.
Report_lock(c) ==
    /\ thread[c].pc = "report"
    /\ LET a == _request_attempt(thread[c].local.outcome)
       IN IF a.report = "record_failure" /\ IsExcluded(a.exception)
          THEN /\ _lock' = _lock
               /\ thread' = [thread EXCEPT ![c] =
                     [Traced(c, @, a.report, "None") EXCEPT !.pc = "reported"]]
          ELSE /\ RLock_free("circuit_breaker", c)
               /\ _lock' = [_lock EXCEPT !["circuit_breaker"] = c]
               /\ thread' = [thread EXCEPT ![c] =
                     [Traced(c, @, a.report, "None") EXCEPT
                         !.pc = "record_write", !.local.self = Self, !.local.t = now]]
    /\ UNCHANGED <<configVars, limiterVars, retryVars, breakerVars, callVars, clientVars, now, history>>

\* record_success, lines 45 to 50, and record_failure, lines 59 to 67: the
\* breaker is written and the lock released.
Breaker_record(c) ==
    /\ thread[c].pc = "record_write"
    /\ LET a == _request_attempt(thread[c].local.outcome)
           self == IF a.report = "record_success"
                   THEN record_success(thread[c].local.self)
                   ELSE record_failure(thread[c].local.self, a.exception, thread[c].local.t)
       IN Assign(self)
    /\ _lock' = RLock_release("circuit_breaker", c)
    /\ thread' = [thread EXCEPT ![c] = [@ EXCEPT !.pc = "reported"]]
    /\ UNCHANGED <<configVars, limiterVars, retryVars, callVars, clientVars, now, history>>

\* _request_attempt, lines 106 to 110 and 118 to 137, and the retry
\* strategy, line 139: a response is stored if eligible and returned; an
\* exception is classified and raised, and retried or given to the caller.
AttemptEnd(c) ==
    /\ thread[c].pc = "reported"
    /\ LET outcome == thread[c].local.outcome
           a == _request_attempt(outcome)
           stored == ShouldCache(thread[c].method, outcome)
       IN /\ _cache' = IF IsException(a.result)
                       THEN _cache
                       ELSE CacheAfterAttempt(_cache, thread[c].method, outcome, now)
          /\ thread' = [thread EXCEPT ![c] =
                IF IsException(a.result)
                THEN AfterRaise(c, @, a.result)
                ELSE [(IF stored THEN Traced(c, @, "cache_set", "None") ELSE @) EXCEPT
                        !.pc = "unwind"]]
    /\ UNCHANGED <<configVars, limiterVars, retryVars, breakerVars, callVars, now, global_limiter,
                   caller, route, _lock, history>>

\* The backoff sleep ends and the next attempt starts.
Backoff_end(c) ==
    /\ thread[c].pc = "backoff"
    /\ thread' = [thread EXCEPT ![c] =
            [@ EXCEPT !.pc = "attempt", !.attempt_number = @ + 1]]
    /\ UNCHANGED <<configVars, limiterVars, retryVars, breakerVars, callVars, clientVars, now,
                   _lock, history>>

\* The response goes back through the interceptors, each changing it after
\* its call_next returned; the outermost returns it to the caller.
Unwind(c) ==
    /\ thread[c].pc = "unwind"
    /\ thread' = [thread EXCEPT ![c] =
            IF @.index > 0
            THEN [Traced(c, @, "leave", call_next(@.index - 1)) EXCEPT
                    !.response = Append(@, call_next(thread[c].index - 1)),
                    !.index = @ - 1]
            ELSE Finish(@, thread[c].local.outcome)]
    /\ UNCHANGED <<configVars, limiterVars, retryVars, breakerVars, callVars, clientVars, now,
                   _lock, history>>

(***************************************************************************)
(* Configurations.                                                         *)
(***************************************************************************)
included_status_codes == {500, 502, 503, 504}

retry_statuses == {408, 429, 500, 502, 503, 504}

\* RetryConfig's backoff_factor (0.5 s) and backoff_max (60 s), in half seconds.
backoff_factor == 1

backoff_max == 120

cacheable_status_codes == {200, 203, 204, 206, 300, 301, 308}

ExcludedChoices == {{}, {"TimeoutException"}, {"HTTPStatusError", "NetworkError"}}

BreakerConfigs ==
    [failure_threshold : 1..MaxThreshold,
     success_threshold : 1..MaxThreshold,
     reset_timeout : 0..MaxResetTimeout,
     half_open_max_calls : {1},
     excluded_exceptions : ExcludedChoices,
     included_status_codes : {included_status_codes}]

InitObjects ==
    /\ state = CLOSED
    /\ metrics = CircuitBreakerMetrics
    /\ opened_at = None
    /\ now = 0
    /\ op = "none"
    /\ arg = "None"
    /\ allowed = TRUE
    /\ streak = 0
    /\ successes = 0
    /\ global_limiter = TokenBucket(rl_config.max_requests, rl_config.time_window, 0)
    /\ _cache = <<>>
    /\ caller = [c \in Callers |-> Idle(Pending, 0)]
    /\ _lock = [lock \in Locks |-> "None"]
    /\ thread = [c \in Callers |-> Ready]
    /\ history = NoHistory
    /\ raised = Pending
    /\ retryable = <<>>
    /\ _limiters = <<>>
    /\ acquired = NotAcquired
    /\ retrying = NotRetrying

(***************************************************************************)
(* BreakerSpec: a CircuitBreaker of any configuration, driven through its  *)
(* public methods in any order.                                            *)
(***************************************************************************)
BreakerInit ==
    /\ cb_config \in BreakerConfigs
    /\ retry_config = [max_attempts |-> 1, retry_statuses |-> retry_statuses,
                       backoff_factor |-> backoff_factor, backoff_max |-> backoff_max]
    /\ rl_config = [max_requests |-> 1, time_window |-> 1]
    /\ cache_config = [enabled |-> FALSE, default_ttl |-> 1,
                       cacheable_status_codes |-> cacheable_status_codes]
    /\ route = RouteOff
    /\ middleware = <<>>
    /\ InitObjects

BreakerNext ==
    \/ AllowRequest
    \/ RecordSuccess
    \/ \E exception \in ExceptionKinds : RecordFailure(exception)
    \/ ForceOpen
    \/ ForceClose
    \/ Reset
    \/ Tick

BreakerSpec == BreakerInit /\ [][BreakerNext]_vars

(***************************************************************************)
(* Spec: a Client serving one caller at a time, with the breaker's         *)
(* overrides.                                                              *)
(***************************************************************************)
MaxAttempts == 2

Init ==
    /\ cb_config \in
          [failure_threshold : 1..MaxThreshold,
           success_threshold : {2},
           reset_timeout : {1},
           half_open_max_calls : {1},
           excluded_exceptions : {{}, {"TimeoutException", "HTTPStatusError"}},
           included_status_codes : {included_status_codes}]
    /\ retry_config \in [max_attempts : 1..MaxAttempts, retry_statuses : {retry_statuses},
                        backoff_factor : {backoff_factor}, backoff_max : {backoff_max}]
    /\ rl_config = [max_requests |-> 2, time_window |-> 1]
    /\ cache_config = [enabled |-> FALSE, default_ttl |-> 1,
                       cacheable_status_codes |-> cacheable_status_codes]
    /\ route = RouteStart
    /\ middleware = <<>>
    /\ InitObjects

Next ==
    \/ \E method \in Methods : StartRequest("c1", method)
    \/ Admit("c1")
    \/ \E outcome \in SomeOutcomes : TransportReturn("c1", outcome)
    \/ BackoffDone("c1")
    \/ OperatorForceOpen
    \/ OperatorForceClose
    \/ OperatorReset
    \/ Tick

Spec == Init /\ [][Next]_vars

(***************************************************************************)
(* ConcurrentSpec: two callers share one Client.                           *)
(***************************************************************************)
ConcurrentInit ==
    /\ cb_config \in
          [failure_threshold : {1, 2},
           success_threshold : {2},
           reset_timeout : {0},
           half_open_max_calls : {1},
           excluded_exceptions : {{}},
           included_status_codes : {included_status_codes}]
    /\ retry_config \in [max_attempts : {1, 2}, retry_statuses : {retry_statuses},
                        backoff_factor : {backoff_factor}, backoff_max : {backoff_max}]
    /\ rl_config = [max_requests |-> 2, time_window |-> 1]
    /\ cache_config = [enabled |-> FALSE, default_ttl |-> 1,
                       cacheable_status_codes |-> cacheable_status_codes]
    /\ route = RouteOff
    /\ middleware = <<>>
    /\ InitObjects

ConcurrentNext ==
    \/ \E c \in Callers : StartRequest(c, "GET")
    \/ \E c \in Callers : Admit(c)
    \/ \E c \in Callers, outcome \in {Response(200), Response(404), Response(500)} :
            TransportReturn(c, outcome)
    \/ \E c \in Callers : BackoffDone(c)
    \/ Tick

ConcurrentSpec == ConcurrentInit /\ [][ConcurrentNext]_vars

(***************************************************************************)
(* ClassifySpec: _should_retry_exception applied to every exception an     *)
(* attempt can raise, under several retry_statuses.                        *)
(***************************************************************************)
HTTPErrorClasses ==
    {"HTTPError", "ClientResponseError", "AuthenticationError", "ForbiddenError",
     "NotFoundError", "RateLimitError", "ServerError"}

OtherClasses ==
    {"ClientError", "ConnectionError", "TimeoutError", "ConnectTimeoutError",
     "ReadTimeoutError", "WriteTimeoutError", "CircuitBreakerError",
     "CircuitBreakerOpenError", "DecodingError", "Exception"}

\* An HTTPError carries the status of its response, or None when it was
\* made without a response, as the client-side RateLimitError is.
Raisable ==
    {Exc(k, s) : k \in HTTPErrorClasses, s \in {None, 301, 404, 429, 500, 503}}
        \cup {Exc(k, None) : k \in OtherClasses}

RetryStatusChoices == {retry_statuses, {}, {404, 429}, {500}}

Raise(e) ==
    /\ raised' = e
    /\ retryable' = <<>>
    /\ UNCHANGED <<configVars, limiterVars, threadVars, breakerVars, callVars, clientVars, now,
                   retrying>>

Classify ==
    /\ raised # Pending
    /\ retryable = <<>>
    /\ retryable' = <<_should_retry_exception(raised, retry_config.retry_statuses)>>
    /\ UNCHANGED <<configVars, limiterVars, threadVars, breakerVars, callVars, clientVars, now,
                   raised, retrying>>

ClassifyInit ==
    /\ cb_config \in
          [failure_threshold : {1}, success_threshold : {1}, reset_timeout : {1},
           half_open_max_calls : {1}, excluded_exceptions : {{}},
           included_status_codes : {included_status_codes}]
    /\ retry_config \in [max_attempts : {3}, retry_statuses : RetryStatusChoices,
                        backoff_factor : {backoff_factor}, backoff_max : {backoff_max}]
    /\ rl_config = [max_requests |-> 1, time_window |-> 1]
    /\ cache_config = [enabled |-> FALSE, default_ttl |-> 1,
                       cacheable_status_codes |-> cacheable_status_codes]
    /\ route = RouteOff
    /\ middleware = <<>>
    /\ InitObjects

ClassifyNext ==
    \/ \E e \in Raisable : Raise(e)
    \/ Classify

ClassifySpec == ClassifyInit /\ [][ClassifyNext]_vars

(***************************************************************************)
(* PipelineSpec: a Client with interceptors and a cache, serving one       *)
(* caller, request() taken statement by statement.                         *)
(***************************************************************************)
PipelineMethods == {"GET", "HEAD", "POST"}

PipelineOutcomes ==
    {Response(200), Response(301), Response(404), Response(500)}

PipelineInit ==
    /\ cb_config \in
          [failure_threshold : {1}, success_threshold : {1}, reset_timeout : {1},
           half_open_max_calls : {1}, excluded_exceptions : {{}},
           included_status_codes : {included_status_codes}]
    /\ retry_config \in [max_attempts : {2}, retry_statuses : {retry_statuses},
                        backoff_factor : {backoff_factor}, backoff_max : {backoff_max}]
    /\ rl_config \in {[max_requests |-> 1, time_window |-> 2],
                      [max_requests |-> 3, time_window |-> 1]}
    /\ cache_config \in [enabled : {TRUE}, default_ttl : {2},
                         cacheable_status_codes : {cacheable_status_codes}]
    /\ route = RouteOff
    /\ middleware \in {<<>>, <<"m1", "m2">>}
    /\ InitObjects

\* The statements of request() but the transport call and the backoff sleep.
Steps(c) ==
    \/ TokenBucket_lock(c)
    \/ TokenBucket_write(c)
    \/ CacheLookup(c)
    \/ CallNext(c)
    \/ Breaker_lock(c)
    \/ Breaker_allow(c)
    \/ Report_lock(c)
    \/ Breaker_record(c)
    \/ AttemptEnd(c)
    \/ Unwind(c)

PipelineNext ==
    \/ \E method \in PipelineMethods : Request("c1", method)
    \/ Steps("c1")
    \/ \E outcome \in PipelineOutcomes : Send("c1", outcome)
    \/ Backoff_end("c1")
    \/ Tick

PipelineSpec == PipelineInit /\ [][PipelineNext]_vars

(***************************************************************************)
(* LockSpec: two callers in parallel on one Client, request() taken        *)
(* statement by statement, the components' locks included.                 *)
(***************************************************************************)
LockInit ==
    /\ cb_config \in
          [failure_threshold : {1, 2}, success_threshold : {1}, reset_timeout : {0},
           half_open_max_calls : {1}, excluded_exceptions : {{}},
           included_status_codes : {included_status_codes}]
    /\ retry_config \in [max_attempts : {2}, retry_statuses : {retry_statuses},
                        backoff_factor : {backoff_factor}, backoff_max : {backoff_max}]
    /\ rl_config = [max_requests |-> 1, time_window |-> 1]
    /\ cache_config = [enabled |-> FALSE, default_ttl |-> 1,
                       cacheable_status_codes |-> cacheable_status_codes]
    /\ route = RouteOff
    /\ middleware = <<>>
    /\ InitObjects

LockNext ==
    \/ \E c \in Callers : Request(c, "GET")
    \/ \E c \in Callers : Steps(c)
    \/ \E c \in Callers, outcome \in {Response(200), Response(500)} : Send(c, outcome)
    \/ \E c \in Callers : Backoff_end(c)
    \/ Tick

LockSpec == LockInit /\ [][LockNext]_vars

(***************************************************************************)
(* BucketSpec: two callers in parallel on one Client whose transport       *)
(* answers 200, under rate limits of several capacities and rates.         *)
(***************************************************************************)
BucketInit ==
    /\ cb_config \in
          [failure_threshold : {1}, success_threshold : {1}, reset_timeout : {1},
           half_open_max_calls : {1}, excluded_exceptions : {{}},
           included_status_codes : {included_status_codes}]
    /\ retry_config \in [max_attempts : {1}, retry_statuses : {retry_statuses},
                        backoff_factor : {backoff_factor}, backoff_max : {backoff_max}]
    /\ rl_config \in {[max_requests |-> 1, time_window |-> 2],
                      [max_requests |-> 2, time_window |-> 1],
                      [max_requests |-> 3, time_window |-> 2]}
    /\ cache_config = [enabled |-> FALSE, default_ttl |-> 1,
                       cacheable_status_codes |-> cacheable_status_codes]
    /\ route = RouteOff
    /\ middleware = <<>>
    /\ InitObjects

BucketNext ==
    \/ \E c \in Callers : Request(c, "GET")
    \/ \E c \in Callers : Steps(c)
    \/ \E c \in Callers : Send(c, Response(200))
    \/ Tick

BucketSpec == BucketInit /\ [][BucketNext]_vars

(***************************************************************************)
(* FailureSpec: one caller on a Client whose transport raises timeouts and *)
(* network errors, under breakers that exclude some of them.               *)
(***************************************************************************)
TransportFailures ==
    {Exc(k, None) : k \in {"ConnectTimeout", "ReadTimeout", "WriteTimeout", "PoolTimeout",
                           "TimeoutException", "NetworkError", "ConnectError",
                           "ReadError"}}

FailureInit ==
    /\ cb_config \in
          [failure_threshold : {2}, success_threshold : {1}, reset_timeout : {0},
           half_open_max_calls : {1},
           excluded_exceptions : {{}, {"TimeoutException"}, {"NetworkError"}},
           included_status_codes : {included_status_codes}]
    /\ retry_config \in [max_attempts : {1, 2}, retry_statuses : {retry_statuses},
                         backoff_factor : {backoff_factor}, backoff_max : {backoff_max}]
    /\ rl_config = [max_requests |-> 3, time_window |-> 1]
    /\ cache_config = [enabled |-> FALSE, default_ttl |-> 1,
                       cacheable_status_codes |-> cacheable_status_codes]
    /\ route = RouteOff
    /\ middleware = <<>>
    /\ InitObjects

FailureNext ==
    \/ Request(Observed, "GET")
    \/ Steps(Observed)
    \/ \E outcome \in TransportFailures \cup {Response(200)} : Send(Observed, outcome)
    \/ Backoff_end(Observed)
    \/ Tick

FailureSpec == FailureInit /\ [][FailureNext]_vars

(***************************************************************************)
(* OutcomeSpec: one caller on a Client with a cache, whose transport gives *)
(* every kind of outcome: a 2xx, a status the breaker counts, one it does  *)
(* not, a timeout, a network error, another exception.                     *)
(***************************************************************************)
OutcomeKinds ==
    {Response(200), Response(404), Response(500), Exc("ReadTimeout", None),
     Exc("NetworkError", None), Exc("DecodingError", None)}

OutcomeInit ==
    /\ cb_config \in
          [failure_threshold : {2}, success_threshold : {1}, reset_timeout : {0},
           half_open_max_calls : {1},
           excluded_exceptions : {{}, {"TimeoutException"}},
           included_status_codes : {included_status_codes}]
    /\ retry_config \in [max_attempts : {2}, retry_statuses : {retry_statuses},
                         backoff_factor : {backoff_factor}, backoff_max : {backoff_max}]
    /\ rl_config = [max_requests |-> 3, time_window |-> 1]
    /\ cache_config = [enabled |-> TRUE, default_ttl |-> 1,
                       cacheable_status_codes |-> cacheable_status_codes]
    /\ route = RouteOff
    /\ middleware = <<>>
    /\ InitObjects

OutcomeNext ==
    \/ \E method \in {"GET", "POST"} : Request(Observed, method)
    \/ Steps(Observed)
    \/ \E outcome \in OutcomeKinds : Send(Observed, outcome)
    \/ Backoff_end(Observed)
    \/ Tick

OutcomeSpec == OutcomeInit /\ [][OutcomeNext]_vars

(***************************************************************************)
(* TripSpec: two callers on one Client of three attempts, whose breaker    *)
(* opens at the first or the second failure and whose reset timeout a     *)
(* backoff sleep may or may not outlast.                                   *)
(***************************************************************************)
TripInit ==
    /\ cb_config \in
          [failure_threshold : {1, 2}, success_threshold : {1}, reset_timeout : {1},
           half_open_max_calls : {1}, excluded_exceptions : {{}},
           included_status_codes : {included_status_codes}]
    /\ retry_config \in [max_attempts : {3}, retry_statuses : {retry_statuses},
                         backoff_factor : {backoff_factor}, backoff_max : {backoff_max}]
    /\ rl_config = [max_requests |-> 2, time_window |-> 1]
    /\ cache_config = [enabled |-> FALSE, default_ttl |-> 1,
                       cacheable_status_codes |-> cacheable_status_codes]
    /\ route = RouteOff
    /\ middleware = <<>>
    /\ InitObjects

TripNext ==
    \/ \E c \in Callers : Request(c, "GET")
    \/ \E c \in Callers : Steps(c)
    \/ \E c \in Callers, outcome \in {Response(200), Response(500)} : Send(c, outcome)
    \/ \E c \in Callers : Backoff_end(c)
    \/ Tick

TripSpec == TripInit /\ [][TripNext]_vars

(***************************************************************************)
(* StatusSpec: _handle_http_error called with the HTTPStatusError of every *)
(* status raise_for_status raises for.                                     *)
(***************************************************************************)
FailedStatuses == {status_code \in 100..MaxStatus : ~is_success(status_code)}

\* _handle_http_error(e), clients.py line 118: the exception it raises.
HandleHttpError(status_code) ==
    /\ raised' = _handle_http_error(status_code)
    /\ retryable' = <<>>
    /\ UNCHANGED <<configVars, limiterVars, threadVars, breakerVars, callVars, clientVars,
                   now, retrying>>

StatusInit ==
    /\ cb_config \in
          [failure_threshold : {1}, success_threshold : {1}, reset_timeout : {1},
           half_open_max_calls : {1}, excluded_exceptions : {{}},
           included_status_codes : {included_status_codes}]
    /\ retry_config = [max_attempts |-> 1, retry_statuses |-> retry_statuses,
                       backoff_factor |-> backoff_factor, backoff_max |-> backoff_max]
    /\ rl_config = [max_requests |-> 1, time_window |-> 1]
    /\ cache_config = [enabled |-> FALSE, default_ttl |-> 1,
                       cacheable_status_codes |-> cacheable_status_codes]
    /\ route = RouteOff
    /\ middleware = <<>>
    /\ InitObjects

StatusNext == \E status_code \in FailedStatuses : HandleHttpError(status_code)

StatusSpec == StatusInit /\ [][StatusNext]_vars

(***************************************************************************)
(* RetrySpec: the Retrying object called with attempts that return or      *)
(* raise, under several backoff factors, caps and numbers of attempts.     *)
(***************************************************************************)
RetryInit ==
    /\ cb_config \in
          [failure_threshold : {1}, success_threshold : {1}, reset_timeout : {1},
           half_open_max_calls : {1}, excluded_exceptions : {{}},
           included_status_codes : {included_status_codes}]
    /\ retry_config \in [max_attempts : 1..(MaxAttempts + 2),
                         retry_statuses : {retry_statuses},
                         backoff_factor : {0, 1, 2, 3}, backoff_max : {2, 5, 12}]
    /\ rl_config = [max_requests |-> 1, time_window |-> 1]
    /\ cache_config = [enabled |-> FALSE, default_ttl |-> 1,
                       cacheable_status_codes |-> cacheable_status_codes]
    /\ route = RouteOff
    /\ middleware = <<>>
    /\ InitObjects

RetryNext ==
    \/ RetryingCall
    \/ AttemptReturns
    \/ \E e \in {Exc("ServerError", 500), Exc("ReadTimeoutError", None),
                  Exc("NotFoundError", 404)} : AttemptRaises(e)
    \/ SleepDone

RetrySpec == RetryInit /\ [][RetryNext]_vars

(***************************************************************************)
(* KeyedSpec: a RateLimiter whose acquire is called directly, without a    *)
(* key and with the keys of two hosts.                                     *)
(***************************************************************************)
AcquireKeys == {"None", "host-a", "host-b"}

KeyedInit ==
    /\ cb_config \in
          [failure_threshold : {1}, success_threshold : {1}, reset_timeout : {1},
           half_open_max_calls : {1}, excluded_exceptions : {{}},
           included_status_codes : {included_status_codes}]
    /\ retry_config \in [max_attempts : {1}, retry_statuses : {retry_statuses},
                        backoff_factor : {backoff_factor}, backoff_max : {backoff_max}]
    /\ rl_config \in {[max_requests |-> 1, time_window |-> 2],
                      [max_requests |-> 2, time_window |-> 1],
                      [max_requests |-> 3, time_window |-> 2]}
    /\ cache_config = [enabled |-> FALSE, default_ttl |-> 1,
                       cacheable_status_codes |-> cacheable_status_codes]
    /\ route = RouteOff
    /\ middleware = <<>>
    /\ InitObjects

KeyedNext ==
    \/ \E key \in AcquireKeys : RateLimiterAcquire(key)
    \/ Tick

KeyedSpec == KeyedInit /\ [][KeyedNext]_vars

(***************************************************************************)
(* Properties of the circuit breaker (BreakerSpec).                        *)
(***************************************************************************)
Elapsed == now - opened_at

C3_AdmitsAtTimeout ==
    [][(AllowRequest /\ state = OPEN) =>
          (allowed' <=> Elapsed >= cb_config.reset_timeout)]_vars

\* C3, amended: an Open breaker admits if and only if strictly more than
\* reset_timeout has passed since it opened; it then becomes HalfOpen with
\* both consecutive counters zero.  Otherwise, also when exactly
\* reset_timeout has passed, allow_request() returns false and leaves the
\* breaker as it is.
C3_AdmitsAfterTimeout ==
    [][(AllowRequest /\ state = OPEN) =>
          IF Elapsed > cb_config.reset_timeout
          THEN /\ allowed'
               /\ state' = HALF_OPEN
               /\ metrics'.failure_count = 0
               /\ metrics'.success_count = 0
               /\ opened_at' = opened_at
          ELSE /\ ~allowed'
               /\ UNCHANGED <<state, metrics, opened_at>>]_vars

\* An admission check has just been refused exactly reset_timeout after the
\* breaker opened.
C3_Witness ==
    /\ op = "allow_request"
    /\ ~allowed
    /\ state = OPEN
    /\ Elapsed = cb_config.reset_timeout

\* A report that the breaker counts: a success, or a failure whose exception
\* is not excluded.
CountedFailure == \E e \in ExceptionKinds : RecordFailure(e) /\ ~IsExcluded(e)

\* C5: a HalfOpen breaker holds the number of successes reported since it
\* became HalfOpen, always fewer than success_threshold; the success that
\* makes it success_threshold closes the breaker and clears opened_at, and
\* no earlier one does; one counted failure opens it at once with the
\* success count back at zero, so that the next HalfOpen period starts from
\* zero.
C5_HalfOpen ==
    /\ [](state = HALF_OPEN =>
            /\ metrics.success_count = successes
            /\ successes < cb_config.success_threshold)
    /\ [][(RecordSuccess /\ state = HALF_OPEN) =>
            IF successes + 1 = cb_config.success_threshold
            THEN state' = CLOSED /\ opened_at' = None
            ELSE state' = HALF_OPEN /\ opened_at' = opened_at]_vars
    /\ [][(CountedFailure /\ state = HALF_OPEN) =>
            /\ state' = OPEN
            /\ opened_at' = now
            /\ metrics'.success_count = 0]_vars

\* A HalfOpen breaker with successes reported, one short of closing.
C5_Witness ==
    /\ state = HALF_OPEN
    /\ op = "record_success"
    /\ successes >= 1
    /\ successes + 1 = cb_config.success_threshold

\* C6: a Closed breaker holds the number of counted failures reported in a
\* row since the last success report, always fewer than failure_threshold;
\* every record_success on a Closed breaker sets the count to zero and
\* leaves it Closed; and a failure report opens a Closed breaker only as
\* the failure_threshold-th in a row.
C6_Closed ==
    /\ [](state = CLOSED =>
            /\ metrics.failure_count = streak
            /\ streak < cb_config.failure_threshold)
    /\ [][(RecordSuccess /\ state = CLOSED) =>
            /\ metrics'.failure_count = 0
            /\ state' = CLOSED]_vars
    /\ [][(state = CLOSED /\ state' = OPEN /\ op' = "record_failure") =>
            streak' = cb_config.failure_threshold]_vars

\* A Closed breaker that has seen failure_threshold failures in all, a
\* success having been reported among them.
C6_Witness ==
    /\ state = CLOSED
    /\ opened_at = None
    /\ op = "record_failure"
    /\ streak < metrics.total_failures
    /\ metrics.total_failures >= cb_config.failure_threshold
    /\ metrics.last_failure_time = 0
    /\ now = 0

(***************************************************************************)
(* Properties of Client.request (Spec, ConcurrentSpec).                    *)
(***************************************************************************)
Raised(c, cls) == caller[c].pc = "idle" /\ caller[c].result.cls = cls

\* C2 as stated: in the scenario (GET requests one after the other, every
\* response a 500, no cooldown run out, no exception excluded) each request
\* adds one to the failure
\* count, the breaker opens with the failure_threshold-th request and no
\* earlier, the request after that raises CircuitBreakerOpenError, and the
\* endpoint is called failure_threshold times.
C2_OpensWithRequest ==
    (route.active /\ cb_config.excluded_exceptions = {}) =>
        /\ (state = CLOSED /\ caller["c1"].pc = "idle") =>
                metrics.failure_count = route.requests
        /\ state = OPEN => route.requests >= cb_config.failure_threshold
        /\ (caller["c1"].pc = "idle" /\ route.requests > cb_config.failure_threshold) =>
                Raised("c1", "CircuitBreakerOpenError")
        /\ route.call_count <= cb_config.failure_threshold

\* C2, amended: in the scenario each transport call (each attempt, not each
\* request) adds one to the failure count; the failure_threshold-th call
\* opens the breaker, which with max_attempts > 1 can happen inside an
\* earlier request than the failure_threshold-th; a request that finds the
\* breaker Open raises CircuitBreakerOpenError without a transport call, as
\* does every request after the failure_threshold-th; the endpoint is called
\* failure_threshold times and no more.  With max_attempts = 1 the breaker
\* opens with the failure_threshold-th request.
C2_OpensWithAttempt ==
    (route.active /\ cb_config.excluded_exceptions = {}) =>
        LET T == cb_config.failure_threshold
            inflight == IF caller["c1"].pc = "transport" THEN 1 ELSE 0
            idle == caller["c1"].pc = "idle"
        IN /\ route.call_count <= T
           /\ state \in {CLOSED, OPEN}
           /\ state = CLOSED =>
                /\ metrics.failure_count = route.call_count - inflight
                /\ metrics.failure_count < T
           /\ state = OPEN => route.call_count = T /\ inflight = 0
           /\ (idle /\ state = OPEN /\ caller["c1"].calls = 0) =>
                Raised("c1", "CircuitBreakerOpenError")
           /\ (idle /\ route.requests > T) =>
                /\ Raised("c1", "CircuitBreakerOpenError")
                /\ caller["c1"].calls = 0
                /\ route.call_count = T
           /\ retry_config.max_attempts = 1 =>
                /\ (state = CLOSED /\ idle) => metrics.failure_count = route.requests
                /\ state = OPEN => route.requests >= T

\* The request after the failure_threshold-th has been refused, the breaker
\* having opened inside an earlier request by a retry.
C2_Witness ==
    /\ route.active
    /\ cb_config.excluded_exceptions = {}
    /\ cb_config.failure_threshold >= 2
    /\ retry_config.max_attempts >= 2
    /\ route.requests = cb_config.failure_threshold + 1
    /\ route.call_count = cb_config.failure_threshold
    /\ Raised("c1", "CircuitBreakerOpenError")
    /\ caller["c1"].calls = 0

\* The calls admitted while the breaker was HalfOpen and not yet reported.
OutstandingTrials ==
    Cardinality({c \in Callers :
        caller[c].pc = "transport" /\ caller[c].admitted_in = HALF_OPEN})

\* C4: while the breaker is HalfOpen, no more than half_open_max_calls
\* admitted trial calls are outstanding.
C4_TrialCap == state = HALF_OPEN => OutstandingTrials <= cb_config.half_open_max_calls

\* C7: a failed response is reported to the breaker as a failure only when
\* its status is in included_status_codes; with any other status it is
\* reported as a success (the failure count of a Closed breaker goes to
\* zero, a HalfOpen breaker counts it toward closing, total_failures stays),
\* and in both cases the attempt raises the classified error.
C7_IncludedStatus ==
    [][\A s \in Statuses :
        (TransportReturn("c1", Response(s)) /\ ~is_success(s)) =>
            /\ caller'["c1"].result = _handle_http_error(s)
            /\ IF s \in cb_config.included_status_codes
               THEN Self' = record_failure(Self, "HTTPStatusError", now)
               ELSE /\ Self' = record_success(Self)
                    /\ metrics'.total_failures = metrics.total_failures
                    /\ metrics'.last_failure_time = metrics.last_failure_time
                    /\ state = CLOSED => metrics'.failure_count = 0 /\ state' = CLOSED
                    /\ state = HALF_OPEN =>
                         \/ metrics'.success_count = metrics.success_count + 1
                         \/ state' = CLOSED]_vars

\* A second 404 in a row has closed a HalfOpen breaker that a counted failure
\* had opened.
C7_Witness ==
    /\ Raised("c1", "NotFoundError")
    /\ state = CLOSED
    /\ cb_config.success_threshold = 2
    /\ metrics.total_failures >= 1
    /\ metrics.last_failure_time # None
    /\ op = "none"

\* C8: when the exception an attempt reports with record_failure matches
\* excluded_exceptions, the breaker is left as it was - state, opened_at and
\* every metric - whatever its state, and the attempt still raises the
\* classified exception.
C8_ExcludedIgnored ==
    [][caller["c1"].pc = "transport" =>
        \A outcome \in Outcomes :
            LET a == _request_attempt(outcome)
            IN (/\ a.report = "record_failure"
                /\ IsExcluded(a.exception)
                /\ TransportReturn("c1", outcome)) =>
                    /\ UNCHANGED <<state, opened_at, metrics>>
                    /\ caller'["c1"].result = a.result
                    /\ IsException(caller'["c1"].result)]_vars

\* An excluded timeout has been raised to the caller of a HalfOpen breaker
\* that has counted no failure.
C8_Witness ==
    /\ "TimeoutException" \in cb_config.excluded_exceptions
    /\ caller["c1"].result = Exc("ReadTimeoutError", None)
    /\ caller["c1"].pc = "idle"
    /\ state = HALF_OPEN
    /\ metrics.total_failures = 0
    /\ metrics.last_failure_time = None

\* C9: an attempt refused by the admission check ends the request at once
\* with CircuitBreakerOpenError: no transport call is made for it, no
\* backoff follows and no further attempt is made, whichever attempt it is.
C9_RefusalEndsRequest ==
    /\ [][(Admit("c1") /\ ~allow_request(Self, now).ret) =>
            caller'["c1"] =
                Idle(Exc("CircuitBreakerOpenError", None), caller["c1"].calls)]_vars
    /\ [](caller["c1"].pc \in {"backoff", "admit", "transport"} =>
            caller["c1"].result.cls # "CircuitBreakerOpenError")

\* A second attempt has been refused: the request ended with
\* CircuitBreakerOpenError after its one transport call.
C9_Witness ==
    /\ Raised("c1", "CircuitBreakerOpenError")
    /\ caller["c1"].calls = 1
    /\ retry_config.max_attempts >= 2

\* C10: a request makes no more than max_attempts transport calls, one per
\* attempt; a first outcome that is not retryable - a 404, for one - ends
\* the request after that one call; and a success ends it with the response
\* after as many calls as attempts were made, max_attempts at most.
C10_AttemptCap ==
    /\ [](/\ caller["c1"].calls <= retry_config.max_attempts
          /\ caller["c1"].attempt_number <= retry_config.max_attempts
          /\ caller["c1"].pc = "transport" =>
                caller["c1"].calls = caller["c1"].attempt_number
          /\ caller["c1"].pc \in {"admit", "backoff"} =>
                caller["c1"].calls < retry_config.max_attempts)
    /\ [][(/\ caller["c1"].pc = "transport"
            /\ caller'["c1"].pc # "transport"
            /\ caller["c1"].attempt_number = 1) =>
            \A outcome \in Outcomes :
               LET a == _request_attempt(outcome)
               IN (/\ IsException(a.result)
                   /\ \/ outcome = Response(404)
                      \/ ~_should_retry_exception(a.result, retry_config.retry_statuses)
                   /\ TransportReturn("c1", outcome)) =>
                       caller'["c1"] = Idle(a.result, 1)]_vars
    /\ [][caller["c1"].pc = "transport" =>
            (TransportReturn("c1", Response(200)) =>
                caller'["c1"] = Idle(Response(200), caller["c1"].attempt_number))]_vars

\* The last permitted attempt has succeeded after retries.
C10_Witness ==
    /\ caller["c1"].pc = "idle"
    /\ caller["c1"].result = Response(200)
    /\ retry_config.max_attempts >= 2
    /\ caller["c1"].calls = retry_config.max_attempts

(***************************************************************************)
(* Properties of the retry strategy (ClassifySpec, Spec).                  *)
(***************************************************************************)
ConnectionOrTimeoutClasses ==
    {"ConnectionError", "TimeoutError", "ConnectTimeoutError", "ReadTimeoutError",
     "WriteTimeoutError"}

\* C11: an exception is classified retryable if and only if it is a
\* ConnectionError or a TimeoutError (or of a subclass), or an HTTPError (or
\* of a subclass) whose status code is in retry_statuses; every other one -
\* an HTTPError with another status or with none, as the client-side
\* RateLimitError, a CircuitBreakerOpenError, an unclassified exception - is
\* not.
C11_Retryable ==
    retryable # <<>> =>
        (retryable[1] <=>
            \/ raised.cls \in ConnectionOrTimeoutClasses
            \/ /\ raised.cls \in HTTPErrorClasses
               /\ raised.status_code \in retry_config.retry_statuses)

\* The client-side RateLimitError has been classified not retryable under
\* retry_statuses that hold 429.
C11_Witness ==
    /\ raised = Exc("RateLimitError", None)
    /\ retryable = <<FALSE>>
    /\ 429 \in retry_config.retry_statuses

\* C12: when the last of max_attempts attempts fails with a retryable
\* exception, as the ones before it did, request() raises that attempt's
\* own exception, class and status code as classified; no RetryError is
\* ever raised.
C12_LastRaised ==
    /\ [][(/\ caller["c1"].pc = "transport"
            /\ caller'["c1"].pc # "transport"
            /\ caller["c1"].attempt_number = retry_config.max_attempts) =>
            \A outcome \in Outcomes :
               LET a == _request_attempt(outcome)
               IN (/\ IsException(a.result)
                   /\ _should_retry_exception(a.result, retry_config.retry_statuses)
                   /\ TransportReturn("c1", outcome)) =>
                       caller'["c1"] = Idle(a.result, caller["c1"].calls)]_vars
    /\ [](caller["c1"].result.cls # "RetryError")

\* A request has ended with the ReadTimeoutError of its last attempt, every
\* attempt having reached the transport.
C12_Witness ==
    /\ caller["c1"].pc = "idle"
    /\ caller["c1"].result = Exc("ReadTimeoutError", None)
    /\ retry_config.max_attempts >= 2
    /\ caller["c1"].calls = retry_config.max_attempts

(***************************************************************************)
(* Properties of the rate limiter (BucketSpec).                            *)
(***************************************************************************)
\* The bucket's capacity, and one token, in the unit _tokens is held in.
Capacity == rl_config.max_requests * rl_config.time_window

OneToken == rl_config.time_window

\* C13: the bucket never holds less than zero or more than its capacity; of
\* the acquisitions made with no time elapsed since it was built full,
\* sequential or by callers in parallel, it grants max_requests and no more,
\* and rejects one only when it has granted that many; the bucket so
\* emptied rejects every acquisition made before a token's worth of time has
\* passed.
C13_TokenBucket ==
    /\ [](/\ 0 <= global_limiter._tokens
          /\ global_limiter._tokens <= Capacity
          /\ history.granted <= rl_config.max_requests
          /\ history.rejected => history.granted = rl_config.max_requests)
    /\ [][\A c \in Callers :
            (/\ TokenBucket_write(c)
             /\ history.granted = rl_config.max_requests
             /\ thread[c].local.t * rl_config.max_requests < OneToken) =>
                /\ thread'[c].pc = "idle"
                /\ thread'[c].result = Exc("RateLimitError", None)]_vars

\* With no time elapsed a bucket of capacity two has granted two
\* acquisitions, one to each caller, the first still in its transport
\* call, and has rejected the next.
C13_Witness ==
    /\ rl_config.max_requests = 2
    /\ now = 0
    /\ history.granted = 2
    /\ history.rejected
    /\ global_limiter._tokens = 0
    /\ thread["c1"].pc = "transport"
    /\ thread["c2"].pc = "idle"
    /\ thread["c2"].result = Exc("RateLimitError", None)

(***************************************************************************)
(* Properties of Client.request taken statement by statement              *)
(* (PipelineSpec).                                                         *)
(***************************************************************************)
Trace == thread[Observed].trace

Acquire == Ev("acquire", "None")

\* C14: when the rate limiter rejects a request, request() raises the
\* client-side RateLimitError (no status code) at once: the trace of the
\* request is the acquisition alone - no cache lookup, interceptor,
\* admission check, transport call, report or backoff - and the breaker
\* and the cache are left as they were.  With max_requests = 1, of the
\* acquisitions made with no time elapsed the first is granted and every
\* later one is rejected so.
C14_RejectedAtOnce ==
    /\ [][(/\ TokenBucket_write(Observed)
           /\ ~RateLimiter_acquire(thread[Observed].local.bucket,
                                   thread[Observed].local.t).ret) =>
                /\ thread'[Observed].pc = "idle"
                /\ thread'[Observed].result = Exc("RateLimitError", None)
                /\ thread'[Observed].trace = <<Acquire>>
                /\ UNCHANGED <<state, metrics, opened_at, _cache>>]_vars
    /\ [][(/\ TokenBucket_write(Observed)
           /\ rl_config.max_requests = 1
           /\ thread[Observed].local.t = 0) =>
                IF history.granted = 0
                THEN thread'[Observed].pc = "cache"
                ELSE /\ thread'[Observed].pc = "idle"
                     /\ thread'[Observed].result = Exc("RateLimitError", None)
                     /\ thread'[Observed].trace = <<Acquire>>]_vars
    /\ []((/\ thread[Observed].pc = "idle"
           /\ thread[Observed].result = Exc("RateLimitError", None)) =>
                Trace = <<Acquire>>)

\* With max_requests = 1 and no time elapsed, the first GET was answered
\* 200 and stored, and the second has been rejected.
C14_Witness ==
    /\ rl_config.max_requests = 1
    /\ now = 0
    /\ history.granted = 1
    /\ thread[Observed].pc = "idle"
    /\ thread[Observed].result = Exc("RateLimitError", None)
    /\ thread[Observed].method = "GET"
    /\ Trace = <<Acquire>>
    /\ _cache # <<>>
    /\ state = CLOSED

IsEnter(e) == e.ev = "enter"

IsLeave(e) == e.ev = "leave"

IsCore(e) == e.ev \in {"allow_request", "send", "record_success", "record_failure",
                       "cache_set", "sleep"}

\* The places of the trace where an event satisfying a test stands.
Entered == {i \in 1..Len(Trace) : IsEnter(Trace[i])}

Left == {i \in 1..Len(Trace) : IsLeave(Trace[i])}

Core == {i \in 1..Len(Trace) : IsCore(Trace[i])}

Reverse(seq) == [i \in 1..Len(seq) |-> seq[Len(seq) + 1 - i]]

\* C15: the interceptors are entered in the order of the middleware list,
\* each seeing the request as the ones before it left it; the retry loop
\* with its admission checks and transport calls runs once all of them are
\* entered, and the transport is sent the request with every interceptor's
\* change; the response goes back through the interceptors in reverse
\* order, each seeing the changes of the ones after it, and the caller gets
\* the response with every interceptor's change.
C15_MiddlewareOrder ==
    LET t == thread[Observed]
        n == Len(middleware)
        entered == SelectSeq(t.trace, IsEnter)
        left == SelectSeq(t.trace, IsLeave)
    IN /\ Len(entered) <= n
       /\ \A i \in 1..Len(entered) : entered[i] = Ev("enter", middleware[i])
       /\ t.request = SubSeq(middleware, 1, Len(entered))
       /\ \A i \in Entered, j \in Core : i < j
       /\ Core # {} => Len(entered) = n
       /\ \A i \in Core : Trace[i].ev = "send" => t.sent = middleware
       /\ Len(left) <= n
       /\ \A i \in 1..Len(left) : left[i] = Ev("leave", middleware[n + 1 - i])
       /\ t.response = SubSeq(Reverse(middleware), 1, Len(left))
       /\ \A i \in Core, j \in Left : i < j
       /\ (t.pc = "idle" /\ t.result.cls = "Response" /\ Core # {}) =>
             /\ t.response = Reverse(middleware)
             /\ t.sent = middleware

\* A request through two interceptors has returned a response after a
\* retry: the transport was sent the request as both changed it, and the
\* caller has the response as both changed it, the inner one first.
C15_Witness ==
    /\ middleware = <<"m1", "m2">>
    /\ thread[Observed].pc = "idle"
    /\ thread[Observed].result = Response(200)
    /\ thread[Observed].sent = <<"m1", "m2">>
    /\ thread[Observed].response = <<"m2", "m1">>
    /\ \E i \in Core : Trace[i].ev = "sleep"

\* The step that comes after step `a` in a request of `method`, if any does.
Follows(method, a, b) ==
    LET n == Len(middleware)
        entry == IF n > 0 THEN Ev("enter", middleware[1]) ELSE Ev("allow_request", "None")
        exit == IF n > 0 THEN {Ev("leave", middleware[n])} ELSE {}
    IN CASE a.ev = "acquire" ->
                b = IF method \in {"GET", "HEAD"} THEN Ev("cache_get", "None") ELSE entry
         [] a.ev = "cache_get" -> b = entry
         [] a.ev = "enter" ->
                \E i \in 1..n :
                    /\ a.by = middleware[i]
                    /\ b = IF i < n THEN Ev("enter", middleware[i + 1])
                                    ELSE Ev("allow_request", "None")
         [] a.ev = "allow_request" -> b = Ev("send", "None")
         [] a.ev = "send" -> b \in {Ev("record_success", "None"), Ev("record_failure", "None")}
         [] a.ev = "record_success" ->
                b \in {Ev("cache_set", "None"), Ev("sleep", "None")} \cup exit
         [] a.ev = "record_failure" -> b = Ev("sleep", "None")
         [] a.ev = "sleep" -> b = Ev("allow_request", "None")
         [] a.ev = "cache_set" -> b \in exit
         [] a.ev = "leave" ->
                \E i \in 2..n : a.by = middleware[i] /\ b = Ev("leave", middleware[i - 1])

\* The step a request can end with, and what request() then returns or raises.
EndsWith(last, result) ==
    LET n == Len(middleware)
    IN CASE last.ev = "acquire" -> result = Exc("RateLimitError", None)
         [] last.ev = "cache_get" -> result.cls = "Response"
         [] last.ev = "allow_request" -> result = Exc("CircuitBreakerOpenError", None)
         [] last.ev = "record_failure" -> IsException(result)
         [] last.ev = "record_success" -> IsException(result) \/ n = 0
         [] last.ev = "cache_set" -> result.cls = "Response" /\ n = 0
         [] last.ev = "leave" -> result.cls = "Response" /\ last.by = middleware[1]
         [] OTHER -> FALSE

\* C16: the steps of a request come in this order, none left out on the
\* path taken: the rate-limit acquisition, first and once, whatever the
\* number of attempts; the cache lookup, for a GET or HEAD; the interceptors;
\* then for each attempt the admission check, the transport call and the
\* report to the breaker, a backoff between two attempts; then the way back
\* through the interceptors.  Whatever comes after the acquisition, a cache
\* hit included, comes with a token taken from the bucket.
C16_StepOrder ==
    LET t == thread[Observed]
    IN /\ Trace # <<>> => Trace[1] = Acquire
       /\ \A i \in 2..Len(Trace) : Trace[i] # Acquire
       /\ \A i \in 1..(Len(Trace) - 1) : Follows(t.method, Trace[i], Trace[i + 1])
       /\ (t.pc = "idle" /\ Trace # <<>>) => EndsWith(Trace[Len(Trace)], t.result)
       /\ (t.pc = "idle" /\ Trace = <<>>) => t.result = Pending
       /\ Len(Trace) >= 2 => global_limiter._tokens <= Capacity - OneToken

\* A GET through two interceptors: a miss in the cache, an attempt answered
\* 500, a backoff, an attempt answered 200 and stored, and the way back.
C16_Witness ==
    /\ thread[Observed].pc = "idle"
    /\ Trace = <<Acquire, Ev("cache_get", "None"), Ev("enter", "m1"), Ev("enter", "m2"),
                 Ev("allow_request", "None"), Ev("send", "None"),
                 Ev("record_failure", "None"), Ev("sleep", "None"),
                 Ev("allow_request", "None"), Ev("send", "None"),
                 Ev("record_success", "None"), Ev("cache_set", "None"),
                 Ev("leave", "m2"), Ev("leave", "m1")>>

\* The entry the cache holds for a request of `method` at time `t`, or None.
Cached(method, t) == CacheManager_get(_cache, generate_key(method), t).ret

\* The step from the cache lookup of a request to what follows it.
C17_Lookup ==
    LET t == thread[Observed]
    IN (t.pc = "cache" /\ thread'[Observed].pc # "cache") =>
          IF t.method \in {"GET", "HEAD"} /\ Cached(t.method, now) # None
          THEN /\ thread'[Observed].pc = "idle"
               /\ thread'[Observed].result = Response(Cached(t.method, now))
               /\ thread'[Observed].trace = <<Acquire, Ev("cache_get", "None")>>
               /\ UNCHANGED <<state, metrics, opened_at>>
          ELSE /\ thread'[Observed].pc = "call_next"
               /\ t.method \notin {"GET", "HEAD"} =>
                     /\ _cache' = _cache
                     /\ thread'[Observed].trace = t.trace

\* C17: the cache is looked up for a GET or a HEAD and for no other method;
\* a hit ends request() there with the cached response, no interceptor, no
\* admission check, no transport call and no report having taken place and
\* the breaker left as it was, whatever its state.
C17_CacheHit ==
    /\ [](\A i \in 1..Len(Trace) :
             Trace[i].ev = "cache_get" => thread[Observed].method \in {"GET", "HEAD"})
    /\ []((thread[Observed].pc = "idle" /\ Len(Trace) >= 2
              /\ Trace[Len(Trace)].ev = "cache_get") =>
             /\ Len(Trace) = 2
             /\ thread[Observed].result.cls = "Response"
             /\ thread[Observed].sent = <<>>)
    /\ [][C17_Lookup]_vars

\* A GET was answered from the cache while the breaker was Open.
C17_Witness ==
    /\ state = OPEN
    /\ thread[Observed].pc = "idle"
    /\ thread[Observed].method = "GET"
    /\ thread[Observed].result = Response(200)
    /\ Trace = <<Acquire, Ev("cache_get", "None")>>

\* The step that ends an attempt of the observed request: whether its
\* outcome was stored, against whether the claim says it is.
C18_AttemptStored ==
    LET t == thread[Observed]
        outcome == t.local.outcome
        key == generate_key(t.method)
        stored == /\ thread'[Observed].trace = Append(t.trace, Ev("cache_set", "None"))
                  /\ Cached(t.method, now)' = outcome.status_code
    IN (t.pc = "reported" /\ thread'[Observed].pc # "reported" /\ cache_config.enabled) =>
          (stored <=> /\ t.method \in {"GET", "HEAD"}
                      /\ outcome.cls = "Response"
                      /\ outcome.status_code \in cache_config.cacheable_status_codes)

\* C18: with the cache enabled, the outcome of an attempt is stored exactly
\* when the method is GET or HEAD and the status of the response is one of
\* cacheable_status_codes, the 3xx ones among them.
C18_StoredIffCacheable == [][C18_AttemptStored]_vars

\* The callers whose failure was sent back by the transport and is not yet
\* written to the breaker.
Reporting ==
    {c \in Callers : /\ thread[c].pc \in {"report", "record_write"}
                     /\ _request_attempt(thread[c].local.outcome).report = "record_failure"}

\* c leaves the critical section of allow_request in this step.
LeavesAllow(c) == thread[c].pc = "allow_write" /\ thread'[c].pc # "allow_write"

\* c leaves the critical section of record_success or record_failure.
LeavesRecord(c) == thread[c].pc = "record_write" /\ thread'[c].pc # "record_write"

\* Each call takes effect at once on the breaker as it is when the call
\* leaves its critical section, and nothing else writes the breaker.
C19_Atomic ==
    /\ \A c \in Callers :
          /\ LeavesAllow(c) => Self' = allow_request(Self, thread[c].local.t).self
          /\ LeavesRecord(c) =>
                LET a == _request_attempt(thread[c].local.outcome)
                IN Self' = IF a.report = "record_success"
                           THEN record_success(Self)
                           ELSE record_failure(Self, a.exception, thread[c].local.t)
    /\ (\A c \in Callers : ~LeavesAllow(c) /\ ~LeavesRecord(c)) => Self' = Self

\* A breaker opens with the report that brings the count to the threshold,
\* is not opened again while Open, and is half-opened by one admission
\* check that saw the timeout elapsed.
C19_Transitions ==
    /\ (state = CLOSED /\ state' = OPEN) =>
          /\ metrics.failure_count + 1 = cb_config.failure_threshold
          /\ \E c \in Callers : LeavesRecord(c) /\ opened_at' = thread[c].local.t
    /\ (state = OPEN /\ state' = OPEN) => opened_at' = opened_at
    /\ (state = OPEN /\ state' # OPEN) =>
          /\ state' = HALF_OPEN
          /\ \E c \in Callers :
                LeavesAllow(c) /\ ResetTimeoutElapsed(Self, thread[c].local.t)

\* Two reports of a failure, the second made on the breaker as the first
\* left it, the first on a Closed breaker close enough to its threshold:
\* the breaker is Open, opened by the report that reached the threshold.
C19_Opened ==
    \A c, d \in Callers :
        LET a == _request_attempt(thread[c].local.outcome)
            b == _request_attempt(thread[d].local.outcome)
            first == thread[c].local
            second == thread[d].local
        IN (/\ c # d
            /\ thread[c].pc = "reported" /\ thread[d].pc = "reported"
            /\ a.report = "record_failure" /\ b.report = "record_failure"
            /\ first.self.state = CLOSED
            /\ first.self.metrics.failure_count + Cardinality({c, d})
                  >= cb_config.failure_threshold
            /\ second.self = record_failure(first.self, a.exception, first.t)) =>
              /\ state = OPEN
              /\ metrics.total_failures = first.self.metrics.total_failures + 2
              /\ opened_at = IF second.self.state = OPEN THEN first.t ELSE second.t

\* C19: under callers in parallel, every allow_request, record_success and
\* record_failure takes effect at once, so that no report of a failure is
\* lost, a Closed breaker never holds a count at or above its threshold,
\* reports of failures in parallel open the breaker exactly once, and
\* admission checks in parallel after the timeout half-open it exactly once.
C19_Linearizable ==
    /\ [](metrics.total_failures = history.failures - Cardinality(Reporting))
    /\ [](state = CLOSED => metrics.failure_count < cb_config.failure_threshold)
    /\ []C19_Opened
    /\ [][C19_Atomic /\ C19_Transitions]_vars

\* With a threshold of 2, two callers were answered 500 and reported it at
\* the same time on a Closed breaker: it is Open and both reports counted.
C19_Witness ==
    /\ cb_config.failure_threshold = 2
    /\ \A c \in Callers :
          /\ thread[c].pc = "reported"
          /\ thread[c].local.outcome = Response(500)
          /\ thread[c].local.self.state = CLOSED
    /\ \E c, d \in Callers :
          thread[d].local.self =
              record_failure(thread[c].local.self, "HTTPStatusError",
                             thread[c].local.t)
    /\ history.failures = 2
    /\ metrics.total_failures = 2
    /\ state = OPEN

\* The lock a caller at `pc` is about to take, or "None".
LockWanted(pc) ==
    CASE pc = "acquire" -> "global_limiter"
      [] pc = "attempt" -> "circuit_breaker"
      [] pc = "report" -> "circuit_breaker"
      [] OTHER -> "None"

\* The lock a caller at `pc` owns, or "None".
LockOwned(pc) ==
    CASE pc = "take" -> "global_limiter"
      [] pc = "allow_write" -> "circuit_breaker"
      [] pc = "record_write" -> "circuit_breaker"
      [] OTHER -> "None"

\* C20: a caller owns a lock only inside acquire, allow_request,
\* record_success or record_failure, hence none during the transport call
\* or a backoff; the lock of the RateLimiter is never taken; and while a
\* caller is in the transport call or in a backoff, the lock another caller
\* is about to take is not owned by it, so that call goes through.
C20_NoLockAcrossBlocking ==
    /\ \A c \in Callers, lock \in Locks :
          _lock[lock] = c <=> LockOwned(thread[c].pc) = lock
    /\ \A c \in Callers :
          thread[c].pc \in {"transport", "backoff"} =>
             /\ \A lock \in Locks : _lock[lock] # c
             /\ \A d \in Callers \ {c} :
                   LockWanted(thread[d].pc) # "None" =>
                      /\ _lock[LockWanted(thread[d].pc)] # c
                      /\ (\A e \in Callers \ {d} :
                             thread[e].pc \in {"transport", "backoff", "idle"}) =>
                            RLock_free(LockWanted(thread[d].pc), d)
    /\ _lock["rate_limiter"] = "None"

\* While one caller waits for the transport to answer, the other is inside
\* record_failure with the lock of the breaker.
C20_Witness ==
    /\ thread["c1"].pc = "transport"
    /\ thread["c2"].pc = "record_write"
    /\ thread["c2"].local.outcome = Response(500)
    /\ _lock["circuit_breaker"] = "c2"

(***************************************************************************)
(* Properties of the breaker's metrics and overrides (BreakerSpec).        *)
(***************************************************************************)
\* C21, as stated: every change of state leaves all five metrics at their
\* initial values.
C21_AllReset == [][state' # state => metrics' = CircuitBreakerMetrics]_vars

\* One call on the breaker, as far as the metrics go.
C21_Step ==
    /\ state' # state =>
          /\ metrics'.failure_count = 0
          /\ metrics'.success_count = 0
    /\ (state' # state /\ op' # "reset") =>
          /\ metrics'.total_calls = metrics.total_calls
          /\ metrics'.total_failures =
                metrics.total_failures + (IF op' = "record_failure" THEN 1 ELSE 0)
          /\ metrics'.last_failure_time =
                IF op' = "record_failure" THEN now ELSE metrics.last_failure_time
    /\ (state = OPEN /\ state' = OPEN) =>
          /\ metrics'.failure_count = metrics.failure_count
          /\ metrics'.success_count = metrics.success_count
          /\ metrics'.total_calls = metrics.total_calls

\* C21: every change of state leaves the two consecutive counts at 0; the
\* last-failure time, the total of calls and the total of failures are not
\* reset by it (only reset() clears them); a step from Open to Open changes
\* neither count.
C21_CountsReset == [][C21_Step]_vars

\* The second failure in a row has opened a breaker of threshold 2: the
\* counts are back to 0, the total and the time of the failures are kept.
C21_Witness ==
    /\ cb_config.failure_threshold = 2
    /\ op = "record_failure"
    /\ state = OPEN
    /\ metrics.failure_count = 0
    /\ metrics.total_failures = 2
    /\ metrics.last_failure_time = now

WaitBefore(k) ==
    Min(retry_config.backoff_factor * Pow2(k - 2), retry_config.backoff_max)

\* C23: the wait before attempt k >= 2 of a call is
\* min(backoff_factor * 2^(k - 2), backoff_max): backoff_factor before the
\* second attempt, twice the wait before at each later one until the cap,
\* never more than backoff_max; there is a wait before every attempt but
\* the first, and none after the last attempt of the call.
C23_Backoff ==
    /\ \A k \in 2..(Len(retrying.waits) + 1) : retrying.waits[k - 1] = WaitBefore(k)
    /\ \A i \in 1..Len(retrying.waits) : retrying.waits[i] <= retry_config.backoff_max
    /\ Len(retrying.waits) >= 1 => retrying.waits[1] =
          Min(retry_config.backoff_factor, retry_config.backoff_max)
    /\ \A i \in 2..Len(retrying.waits) :
          retrying.waits[i] = Min(2 * retrying.waits[i - 1], retry_config.backoff_max)
             \/ retrying.waits[i - 1] = retry_config.backoff_max
    /\ retrying.pc \in {"attempt", "idle"} =>
          Len(retrying.waits) = Max(retrying.attempt_number - 1, 0)
    /\ retrying.pc = "sleep" =>
          /\ Len(retrying.waits) = retrying.attempt_number
          /\ retrying.attempt_number < retry_config.max_attempts

\* A call of four attempts with backoff_factor 2 and backoff_max 5 has
\* waited 2, 4 and 5 and raised the error of its fourth attempt.
C23_Witness ==
    /\ retry_config.backoff_factor = 2
    /\ retry_config.backoff_max = 5
    /\ retrying.pc = "idle"
    /\ retrying.attempt_number = 4
    /\ retrying.waits = <<2, 4, 5>>
    /\ retrying.result = Exc("ServerError", 500)

(***************************************************************************)
(* Properties of the classification of failures.                           *)
(***************************************************************************)
\* The error kind of a failed status, by the first rule that matches.
ErrorKind(status_code) ==
    CASE status_code = 401 -> "AuthenticationError"
      [] status_code = 403 -> "ForbiddenError"
      [] status_code = 404 -> "NotFoundError"
      [] status_code = 429 -> "RateLimitError"
      [] status_code \in (400..499) \ {401, 403, 404, 429} -> "ClientResponseError"
      [] status_code \in 500..599 -> "ServerError"
      [] OTHER -> "HTTPError"

\* C24: the exception raised for a failed response is of the kind the first
\* matching rule gives its status - 401, 403, 404, 429, any other 4xx, any
\* 5xx, anything else - one kind for every status, and it is what an
\* attempt answered with that status raises.
C24_StatusMapping ==
    raised # Pending =>
        /\ raised.status_code \in FailedStatuses
        /\ raised.cls = ErrorKind(raised.status_code)
        /\ raised.cls \in HTTPErrorClasses
        /\ _request_attempt(Response(raised.status_code)).result = raised

\* A 418 has been mapped to the error of the other 4xx statuses.
C24_Witness == raised = Exc("ClientResponseError", 418)

\* The error a failure of the transport is raised as.
TransportErrorKind(k) ==
    CASE k = "ConnectTimeout" -> "ConnectTimeoutError"
      [] k = "ReadTimeout" -> "ReadTimeoutError"
      [] k = "WriteTimeout" -> "WriteTimeoutError"
      [] k \in {"PoolTimeout", "TimeoutException"} -> "TimeoutError"
      [] k \in {"NetworkError", "ConnectError", "ReadError"} -> "ConnectionError"

\* The report of a failure of the transport: record_failure is called, and
\* writes the breaker unless the exception is excluded.
C25_Reported ==
    LET t == thread[Observed]
        k == t.local.outcome.cls
    IN /\ (t.pc = "report" /\ thread'[Observed].pc # "report" /\ IsException(t.local.outcome)) =>
             /\ thread'[Observed].trace = Append(t.trace, Ev("record_failure", "None"))
             /\ thread'[Observed].pc = IF IsExcluded(k) THEN "reported" ELSE "record_write"
             /\ UNCHANGED <<state, metrics, opened_at>>
       /\ (t.pc = "record_write" /\ thread'[Observed].pc # "record_write"
              /\ IsException(t.local.outcome)) =>
             /\ metrics'.total_failures = metrics.total_failures + 1
             /\ metrics'.last_failure_time = t.local.t
             /\ Self' = record_failure(Self, k, t.local.t)

\* The end of an attempt the transport failed: the report has been made,
\* and the classified error is what the attempt raises.
C25_Raised ==
    LET t == thread[Observed]
        k == t.local.outcome.cls
        e == Exc(TransportErrorKind(k), None)
    IN (t.pc = "reported" /\ thread'[Observed].pc # "reported" /\ IsException(t.local.outcome)) =>
          /\ t.trace[Len(t.trace)] = Ev("record_failure", "None")
          /\ t.trace[Len(t.trace) - 1] = Ev("send", "None")
          /\ _request_attempt(t.local.outcome).result = e
          /\ thread'[Observed].pc \in {"idle", "backoff"}
          /\ thread'[Observed].pc = "idle" => thread'[Observed].result = e
          /\ UNCHANGED <<state, metrics, opened_at>>

\* C25: a failure of the transport is reported to the breaker with
\* record_failure, which counts it unless it is excluded, before the
\* attempt raises; and the attempt raises ConnectTimeoutError,
\* ReadTimeoutError or WriteTimeoutError for the timeout of that phase,
\* TimeoutError for any other timeout and ConnectionError for a network
\* error.
C25_TransportFailure == [][C25_Reported /\ C25_Raised]_vars

\* A pool timeout was counted by the breaker and raised as TimeoutError.
C25_Witness ==
    /\ thread[Observed].pc = "idle"
    /\ thread[Observed].result = Exc("TimeoutError", None)
    /\ Trace[Len(Trace)] = Ev("record_failure", "None")
    /\ metrics.total_failures = 1
    /\ cb_config.excluded_exceptions = {"NetworkError"}

\* The two consecutive counts set to 0, the rest of the metrics kept.
CountsCleared(m) == [m EXCEPT !.failure_count = 0, !.success_count = 0]

\* C26: whatever the state of the breaker, force_open leaves it Open with
\* opened_at the time of the call, force_close leaves it Closed with
\* opened_at None, and reset leaves it Closed with opened_at None and every
\* metric at its initial value.
C26_Overrides ==
    [][/\ ForceOpen =>
             /\ state' = OPEN
             /\ opened_at' = now
             /\ metrics' = CountsCleared(metrics)
       /\ ForceClose =>
             /\ state' = CLOSED
             /\ opened_at' = None
             /\ metrics' = CountsCleared(metrics)
       /\ Reset =>
             /\ state' = CLOSED
             /\ opened_at' = None
             /\ metrics' = CircuitBreakerMetrics]_vars

\* reset() has been called after the breaker had refused a request: the
\* breaker is Closed, opened_at is None and the metrics are the initial ones.
C26_Witness ==
    /\ op = "reset"
    /\ allowed = FALSE
    /\ state = CLOSED
    /\ opened_at = None
    /\ metrics = CircuitBreakerMetrics

\* C27: a breaker goes from Open to HalfOpen only in a call of
\* allow_request made after the timeout; the passing of time changes
\* nothing of the breaker; and a record_success or record_failure made
\* while the breaker is Open leaves it Open with opened_at as it was.
C27_LazyHalfOpen ==
    [][/\ (state = OPEN /\ state' = HALF_OPEN) =>
             /\ AllowRequest
             /\ ResetTimeoutElapsed(Self, now)
             /\ allowed'
       /\ now' # now => UNCHANGED <<state, metrics, opened_at>>
       /\ (state = OPEN /\ (RecordSuccess \/ \E e \in ExceptionKinds : RecordFailure(e))) =>
             /\ state' = OPEN
             /\ opened_at' = opened_at]_vars

\* A failure was reported to an Open breaker after it had opened, past its
\* timeout: the breaker is still Open and opened_at is the earlier time.
C27_Witness ==
    /\ op = "record_failure"
    /\ state = OPEN
    /\ metrics.last_failure_time = now
    /\ now - opened_at > cb_config.reset_timeout

\* C28: in every state reached by calls of allow_request, record_success,
\* record_failure, force_open, force_close and reset, with thresholds of at
\* least 1: opened_at is set exactly when the breaker is Open or HalfOpen;
\* a Closed breaker has counted no success and fewer failures than
\* failure_threshold; a HalfOpen one no failure and fewer successes than
\* success_threshold; an Open one neither.
C28_WellFormed ==
    /\ cb_config.failure_threshold >= 1 /\ cb_config.success_threshold >= 1
    /\ state \in CircuitState
    /\ opened_at # None <=> state \in {OPEN, HALF_OPEN}
    /\ state = CLOSED =>
          /\ metrics.success_count = 0
          /\ metrics.failure_count >= 0
          /\ metrics.failure_count < cb_config.failure_threshold
    /\ state = HALF_OPEN =>
          /\ metrics.failure_count = 0
          /\ metrics.success_count >= 0
          /\ metrics.success_count < cb_config.success_threshold
    /\ state = OPEN =>
          /\ metrics.failure_count = 0
          /\ metrics.success_count = 0

\* A HalfOpen breaker of success_threshold 2 has counted one success, after
\* having been opened by its second failure in a row.
C28_Witness ==
    /\ cb_config.success_threshold = 2
    /\ cb_config.failure_threshold = 2
    /\ state = HALF_OPEN
    /\ metrics.success_count = 1
    /\ metrics.total_failures = 2
    /\ opened_at = metrics.last_failure_time

\* The two reports an attempt can make to the breaker.
Reports == {"record_success", "record_failure"}

\* The report the outcome of a transport call is owed.
ReportOwed(outcome) ==
    IF outcome.cls = "Response"
    THEN IF is_success(outcome.status_code) THEN "record_success"
         ELSE IF outcome.status_code \in cb_config.included_status_codes
              THEN "record_failure"
              ELSE "record_success"
    ELSE "record_failure"

\* C29: every transport call of a request is followed by exactly one report
\* to the breaker, made before the attempt returns or raises and before
\* anything else is done: record_success for a 2xx and for a failed status
\* the breaker does not count, record_failure for a status it counts, a
\* timeout, a network error and any other exception; and no report is made
\* without a transport call.
C29_OneReport ==
    LET t == thread[Observed]
    IN /\ \A i \in 1..Len(Trace) :
             Trace[i].ev = "send" =>
                IF i = Len(Trace)
                THEN t.pc = "report"
                ELSE Trace[i + 1].ev \in Reports
       /\ \A i \in 1..Len(Trace) :
             Trace[i].ev \in Reports =>
                /\ i > 1
                /\ Trace[i - 1].ev = "send"
       /\ t.pc \in {"record_write", "reported"} =>
             Trace[Len(Trace)] = Ev(ReportOwed(t.local.outcome), "None")
       /\ t.pc \in {"idle", "backoff", "unwind", "attempt", "allow_write", "transport"} =>
             Cardinality({i \in 1..Len(Trace) : Trace[i].ev \in Reports})
                = Cardinality({i \in 1..Len(Trace) : Trace[i].ev = "send"})

\* A request of two attempts, the first ended by a timeout of the
\* transport, the second by an exception of the generic handler, has made
\* one report for each and raised the second exception.
C29_Witness ==
    /\ thread[Observed].pc = "idle"
    /\ thread[Observed].result = Exc("DecodingError", None)
    /\ Trace = <<Acquire, Ev("allow_request", "None"), Ev("send", "None"),
                 Ev("record_failure", "None"), Ev("sleep", "None"),
                 Ev("allow_request", "None"), Ev("send", "None"),
                 Ev("record_failure", "None")>>

\* request() ends for caller c at this step with CircuitBreakerOpenError.
EndsRefused(c) ==
    /\ thread'[c].pc = "idle"
    /\ thread'[c].result = Exc("CircuitBreakerOpenError", None)

\* A retry of caller c asks the breaker for admission while it is open.
RetryMeetsOpen(c) ==
    /\ thread[c].pc = "allow_write"
    /\ thread[c].attempt_number >= 2
    /\ state = OPEN

\* The record_failure calls of the observed request.
FailuresReported == {i \in 1..Len(Trace) : Trace[i] = Ev("record_failure", "None")}

\* C30 as stated: a retry that finds the breaker open - opened by the
\* request's own failed attempt or by another caller - makes no transport
\* call, and the request ends with CircuitBreakerOpenError.
C30_RetryRefused ==
    [][\A c \in Callers :
          (RetryMeetsOpen(c) /\ Breaker_allow(c)) => EndsRefused(c)]_vars

\* C30: a retry that finds the breaker open no more than reset_timeout after
\* it opened makes no transport call and the request ends with
\* CircuitBreakerOpenError, whatever the failed attempt before it raised; a
\* retry that finds it open for longer is admitted as the trial call of the
\* half-open breaker. Each attempt of a request reports its own failure, at
\* most max_attempts of them.
C30_RetryRefusedUntilTimeout ==
    /\ [](Cardinality(FailuresReported) <= retry_config.max_attempts)
    /\ [][\A c \in Callers :
             (RetryMeetsOpen(c) /\ Breaker_allow(c)) =>
                IF thread[c].local.t - opened_at <= cb_config.reset_timeout
                THEN /\ EndsRefused(c)
                     /\ state' = OPEN
                ELSE /\ thread'[c].pc = "transport"
                     /\ state' = HALF_OPEN]_vars

\* Two failed attempts of one request have opened a breaker of threshold 2,
\* and the third attempt was refused: the request made two transport calls
\* and ended with CircuitBreakerOpenError.
C30_Witness ==
    /\ cb_config.failure_threshold = 2
    /\ thread[Observed].pc = "idle"
    /\ thread[Observed].result = Exc("CircuitBreakerOpenError", None)
    /\ thread[Observed].attempt_number = 3
    /\ Trace = <<Acquire, Ev("cache_get", "None"),
                 Ev("allow_request", "None"), Ev("send", "None"),
                 Ev("record_failure", "None"), Ev("sleep", "None"),
                 Ev("allow_request", "None"), Ev("send", "None"),
                 Ev("record_failure", "None"), Ev("sleep", "None"),
                 Ev("allow_request", "None")>>
    /\ state = OPEN
    /\ metrics.total_failures = 2

\* The transport calls of the observed request.
Sends == {i \in 1..Len(Trace) : Trace[i].ev = "send"}

\* The calls of interceptor m in the observed request.
EntersOf(m) == {i \in 1..Len(Trace) : Trace[i] = Ev("enter", m)}

\* C31: the retry loop runs inside the chain of interceptors: a request that
\* reaches the core call has called each interceptor exactly once, however
\* many transport calls it makes, and every attempt after the first sends
\* the request the attempt before it sent, the one the innermost
\* interceptor passed on.
C31_ChainOnce ==
    /\ [](\A k \in 1..Len(middleware) :
            /\ Cardinality(EntersOf(middleware[k])) <= 1
            /\ Sends # {} => Cardinality(EntersOf(middleware[k])) = 1)
    /\ [][(thread[Observed].pc = "transport" /\ thread'[Observed].pc = "report") =>
             /\ thread'[Observed].sent = middleware
             /\ thread[Observed].attempt_number >= 2 =>
                   thread'[Observed].sent = thread[Observed].sent]_vars

\* A request through two interceptors has made two transport calls and
\* ended: each interceptor was called once and left once.
C31_Witness ==
    /\ middleware = <<"m1", "m2">>
    /\ thread[Observed].pc = "idle"
    /\ thread[Observed].attempt_number = 2
    /\ Cardinality(Sends) = 2
    /\ Cardinality(EntersOf("m1")) = 1
    /\ Cardinality(EntersOf("m2")) = 1
    /\ Cardinality(Left) = 2
    /\ thread[Observed].sent = <<"m1", "m2">>

\* Caller c is inside a transport call it was admitted to while the breaker
\* was Closed, and the breaker has since opened and gone HalfOpen.
StaleCall(c) ==
    /\ caller[c].pc = "transport"
    /\ caller[c].admitted_in = CLOSED
    /\ state = HALF_OPEN

\* C32: the report of a call admitted while the breaker was Closed, made
\* once the breaker is HalfOpen, counts neither toward closing it nor
\* toward re-opening it: the state and the count of successes stay.
C32_TrialsOnly ==
    [][\A c \in Callers :
          StaleCall(c) =>
             \A outcome \in {Response(200), Response(404), Response(500)} :
                TransportReturn(c, outcome) =>
                   /\ state' = HALF_OPEN
                   /\ metrics'.success_count = metrics.success_count]_vars

====
